---- MODULE Spec2Model ----
(***************************************************************************)
(* Reading-list maintenance of the browser extension.                      *)
(*                                                                         *)
(* Spec          src/backend/background.ts: getSettings, markAsReadIfOlder, *)
(*               deleteIfOlder and processReadingList, run against a       *)
(*               reading list and a settings store whose calls may fail.   *)
(* SpecClassify  the classifyEntries variant of the background script.     *)
(* SpecProcessEntries, SpecEntries, SpecMessages                           *)
(*               the other variants of the background script.              *)
(* SpecListeners the listeners of initializeExtension, running together.   *)
(* SpecRerun     processReadingList called twice in a row.                 *)
(* SpecCompare   the millisecond and the whole-day age test side by side.  *)
(* SpecOptions   src/frontend/options/options.tsx: OptionsPage.            *)
(*                                                                         *)
(* Every step is the code between two awaits.  An entry is the record      *)
(* [url, hasBeenRead, creationTime]; title and lastUpdateTime are only     *)
(* logged by the code and are left out.  URLs are the integers 1..n.       *)
(***************************************************************************)
EXTENDS Integers, Sequences, FiniteSets, TLC

(***************************************************************************)
(* Time.  Timestamps are integer milliseconds.  A timestamp t is kept as   *)
(* the pair [d, ms] with t = d * MsPerDay + ms and 0 <= ms < MsPerDay,     *)
(* because 30 * 86400000 already exceeds the model checker's integers.     *)
(* The arithmetic below is exact millisecond arithmetic on that pair.      *)
(***************************************************************************)
MsPerDay == 24 * 60 * 60 * 1000

Time(d, ms) == [d |-> d + (ms \div MsPerDay), ms |-> ms % MsPerDay]

\* a - b
Minus(a, b) == Time(a.d - b.d, a.ms - b.ms)

\* a + n milliseconds
PlusMs(a, n) == Time(a.d, a.ms + n)

\* a >= b
Geq(a, b) == a.d > b.d \/ (a.d = b.d /\ a.ms >= b.ms)

\* a < b
Less(a, b) == ~Geq(a, b)

\* days * 24 * 60 * 60 * 1000
DaysToMs(days) == Time(days, 0)

(***************************************************************************)
(* Bounds of the model.                                                    *)
(***************************************************************************)
MaxEntries == 2
MaxRetriesArg == 2

\* Date.now() when the behaviour starts
Clock0 == Time(100, 0)

\* ages of the entries of the initial reading list
Ages == { Time(1, 0), Time(30, 0), Time(65, 0) }

\* thresholds passed to a direct call of markAsReadIfOlder / deleteIfOlder
DayArgs == { 30, 60 }

\* values the settings store may hold for a key
StoredDays == { 70 }

SettingKeys == {"daysUntilRead", "daysUntilDelete"}

\* the contents the settings store may have: any subset of the keys
\* (<< >> is the store without keys)
Storages == UNION { [K -> StoredDays] : K \in SUBSET SettingKeys }

NoValue == 0 - 1

Lists ==
  UNION { { [k \in 1..n |-> [url |-> k, hasBeenRead |-> f[k][1],
                              creationTime |-> Minus(Clock0, f[k][2])]]
            : f \in [1..n -> BOOLEAN \X Ages] } : n \in 0..MaxEntries }

VARIABLES
  list,          \* chrome.readingList: the entries, in query order
  storage,       \* chrome.storage.local: daysUntilRead, daysUntilDelete
  clock,         \* Date.now()
  pc,            \* position of the running call
  caller,        \* the function that was invoked from outside
  settings,      \* processReadingList: const settings
  daysThreshold, \* parameter of markAsReadIfOlder / deleteIfOlder
  maxRetries,    \* parameter of markAsReadIfOlder / deleteIfOlder
  candidates,    \* entriesToMarkAsRead / entriesToDelete
  i,             \* position of the for loop in candidates
  retryCount,    \* let retryCount
  successCount,  \* let successCount
  waitTime,      \* const waitTime of the pending setTimeout
  readCount,     \* processReadingList: const readCount
  deleteCount,   \* processReadingList: const deleteCount
  result,        \* value returned by a direct call
  error,         \* the error the invoked function rejected with
  log,           \* history of the collaborator calls of the invocation
  snapshot,      \* const entries of the running function
  queriedAt,     \* const now of the running function
  inflight,      \* mutation requests issued and not yet settled
  list0,         \* the reading list when the invocation started
  toMarkRead,    \* classifyEntries: const toMarkRead
  toDelete,      \* classifyEntries: const toDelete
  daysSince,     \* classifyEntries: daysSinceCreation of each entry so far
  previous,      \* classifyEntries: what the earlier calls returned
  runs,          \* the processReadingList runs the listeners have started
  listenerResult, \* what the onMessage listener returned
  responses,     \* the arguments sendResponse was called with
  isSaving,      \* OptionsPage: const [isSaving, setIsSaving]
  saveMessage,   \* OptionsPage: const [saveMessage, setSaveMessage]
  messageTimers  \* OptionsPage: pending setTimeout(() => setSaveMessage(null))

classifyVars == <<toMarkRead, toDelete, daysSince, previous>>

listenerVars == <<runs, listenerResult, responses>>

optionsVars == <<isSaving, saveMessage, messageTimers>>

vars == <<list, storage, clock, pc, caller, settings, daysThreshold,
          maxRetries, candidates, i, retryCount, successCount, waitTime,
          readCount, deleteCount, result, error, log, snapshot, queriedAt,
          inflight, list0, toMarkRead, toDelete, daysSince, previous, runs,
          listenerResult, responses, isSaving, saveMessage, messageTimers>>

Event(op, url, ok, ms) == [op |-> op, url |-> url, ok |-> ok, ms |-> ms]

\* the attempt-th retry of the mutator op on url (0 is the first call)
Request(op, url, attempt) == [op |-> op, url |-> url, attempt |-> attempt]

(***************************************************************************)
(* background.ts                                                           *)
(***************************************************************************)
DefaultDaysUntilRead == 30
DefaultDaysUntilDelete == 60
DefaultMaxRetries == 3

\* result[key] ?? dflt
Coalesce(stored, key, dflt) ==
  IF key \in DOMAIN stored THEN stored[key] ELSE dflt

\* faulty variant of getSettings: the two defaults are exchanged
getSettings_SwappedDefaults(stored) ==
  [daysUntilRead |-> Coalesce(stored, "daysUntilRead", DefaultDaysUntilDelete),
   daysUntilDelete |->
     Coalesce(stored, "daysUntilDelete", DefaultDaysUntilRead)]

getSettings(stored) ==
  [daysUntilRead |-> Coalesce(stored, "daysUntilRead", DefaultDaysUntilRead),
   daysUntilDelete |->
     Coalesce(stored, "daysUntilDelete", DefaultDaysUntilDelete)]

\* faulty variant of getReadingListEntries: read entries are dropped
getReadingListEntries_UnreadOnly(queried) ==
  SelectSeq(queried, LAMBDA entry : ~entry.hasBeenRead)

\* what getReadingListEntries resolves with when chrome.readingList.query
\* resolved with queried: the entries are logged and returned as they are
getReadingListEntries(queried) == queried

\* faulty variant of ShouldMarkAsRead: hasBeenRead is not looked at
ShouldMarkAsRead_IgnoresReadState(entry, now, thresholdTime) ==
  LET ageTime == Minus(now, entry.creationTime)
  IN  Geq(ageTime, thresholdTime)

\* faulty variant of ShouldMarkAsRead: the age is compared with >
ShouldMarkAsRead_Strict(entry, now, thresholdTime) ==
  LET ageTime == Minus(now, entry.creationTime)
  IN  ~entry.hasBeenRead /\ ~Geq(thresholdTime, ageTime)

\* the filter predicate of entriesToMarkAsRead
ShouldMarkAsRead(entry, now, thresholdTime) ==
  LET ageTime == Minus(now, entry.creationTime)
  IN  ~entry.hasBeenRead /\ Geq(ageTime, thresholdTime)

\* faulty variant of ShouldDelete: read entries are kept
ShouldDelete_UnreadOnly(entry, now, thresholdTime) ==
  LET ageTime == Minus(now, entry.creationTime)
  IN  ~entry.hasBeenRead /\ Geq(ageTime, thresholdTime)

\* the filter predicate of entriesToDelete
ShouldDelete(entry, now, thresholdTime) ==
  LET ageTime == Minus(now, entry.creationTime)
  IN  Geq(ageTime, thresholdTime)

\* faulty variant of entriesToMarkAsRead: the filter is left out
entriesToMarkAsRead_Unfiltered(entries, now, days) == entries

\* entries.filter(...) of markAsReadIfOlder, thresholdTime = days * MsPerDay
entriesToMarkAsRead(entries, now, days) ==
  LET thresholdTime == DaysToMs(days)
  IN  SelectSeq(entries, LAMBDA entry :
                  ShouldMarkAsRead(entry, now, thresholdTime))

\* entries.filter(...) of deleteIfOlder, thresholdTime = days * MsPerDay
entriesToDelete(entries, now, days) ==
  LET thresholdTime == DaysToMs(days)
  IN  SelectSeq(entries, LAMBDA entry :
                  ShouldDelete(entry, now, thresholdTime))

\* faulty variant of LoopGuard: one attempt too many
LoopGuard_Inclusive(rc, mr) == rc <= mr

\* while (retryCount < maxRetries)
LoopGuard(rc, mr) == rc < mr

\* if (retryCount >= maxRetries)
RetriesExhausted(rc, mr) == rc >= mr

\* faulty variant of BackoffMs: the exponent is not reduced by one
BackoffMs_FromTwoSeconds(rc) == 2 ^ rc * 1000

\* 2 ** (retryCount - 1) * 1000
BackoffMs(rc) == 2 ^ (rc - 1) * 1000

\* faulty variant of UpdateEntry: the request carries hasBeenRead: false
UpdateEntry_MarkUnread(l, url) ==
  [k \in 1..Len(l) |-> IF l[k].url = url
                       THEN [l[k] EXCEPT !.hasBeenRead = FALSE] ELSE l[k]]

\* chrome.readingList.updateEntry({url, hasBeenRead: true}) applied
UpdateEntry(l, url) ==
  [k \in 1..Len(l) |-> IF l[k].url = url
                       THEN [l[k] EXCEPT !.hasBeenRead = TRUE] ELSE l[k]]

\* chrome.readingList.removeEntry({url}) applied
RemoveEntry(l, url) == SelectSeq(l, LAMBDA e : e.url # url)

\* a value of const [saveMessage, setSaveMessage]
SaveMessage(text, type) == [text |-> text, type |-> type]

\* useState<SaveMessage | null>(null)
NoMessage == SaveMessage("", "null")

\* nothing has been called yet
Idle ==
  /\ storage = << >>
  /\ clock = Clock0
  /\ pc = "idle"
  /\ caller = "none"
  /\ settings = [daysUntilRead |-> NoValue, daysUntilDelete |-> NoValue]
  /\ daysThreshold = NoValue
  /\ maxRetries = NoValue
  /\ candidates = <<>>
  /\ i = 0
  /\ retryCount = 0
  /\ successCount = 0
  /\ waitTime = 0
  /\ readCount = NoValue
  /\ deleteCount = NoValue
  /\ result = NoValue
  /\ error = "none"
  /\ log = <<>>
  /\ snapshot = <<>>
  /\ queriedAt = Clock0
  /\ inflight = {}
  /\ list0 = list
  /\ toMarkRead = <<>>
  /\ toDelete = <<>>
  /\ daysSince = <<>>
  /\ previous = <<>>
  /\ runs = << >>
  /\ listenerResult = "none"
  /\ responses = <<>>
  /\ isSaving = FALSE
  /\ saveMessage = NoMessage
  /\ messageTimers = 0

Init ==
  /\ list \in Lists
  /\ Idle

(***************************************************************************)
(* Invocations from outside: the listeners call processReadingList, the    *)
(* tests and other callers call the two exported functions directly.       *)
(***************************************************************************)
CallProcessReadingList ==
  /\ pc = "idle"
  /\ UNCHANGED <<classifyVars, listenerVars, optionsVars>>
  /\ UNCHANGED <<snapshot, queriedAt, inflight, list0>>
  /\ caller' = "processReadingList"
  /\ pc' = "getSettings"
  /\ UNCHANGED <<list, storage, clock, settings, daysThreshold, maxRetries,
                 candidates, i, retryCount, successCount, waitTime,
                 readCount, deleteCount, result, error, log>>

CallMarkAsReadIfOlder ==
  /\ pc = "idle"
  /\ UNCHANGED <<classifyVars, listenerVars, optionsVars>>
  /\ UNCHANGED <<snapshot, queriedAt, inflight, list0>>
  /\ \E d \in DayArgs, m \in (0 - 1)..MaxRetriesArg :
       /\ daysThreshold' = d
       /\ maxRetries' = m
  /\ caller' = "markAsReadIfOlder"
  /\ pc' = "mark_query"
  /\ UNCHANGED <<list, storage, clock, settings, candidates, i, retryCount,
                 successCount, waitTime, readCount, deleteCount, result,
                 error, log>>

CallDeleteIfOlder ==
  /\ pc = "idle"
  /\ UNCHANGED <<classifyVars, listenerVars, optionsVars>>
  /\ UNCHANGED <<snapshot, queriedAt, inflight, list0>>
  /\ \E d \in DayArgs, m \in (0 - 1)..MaxRetriesArg :
       /\ daysThreshold' = d
       /\ maxRetries' = m
  /\ caller' = "deleteIfOlder"
  /\ pc' = "delete_query"
  /\ UNCHANGED <<list, storage, clock, settings, candidates, i, retryCount,
                 successCount, waitTime, readCount, deleteCount, result,
                 error, log>>

(***************************************************************************)
(* processReadingList: await getSettings()                                 *)
(***************************************************************************)
\* chrome.storage.local.get resolves with what the options page last saved
\* (drawn here, when it is read); markAsReadIfOlder(settings.daysUntilRead)
\* is called with the default maxRetries
GetSettingsOk ==
  /\ pc = "getSettings"
  /\ UNCHANGED <<classifyVars, listenerVars, optionsVars>>
  /\ UNCHANGED <<snapshot, queriedAt, inflight, list0>>
  /\ \E stored \in Storages :
       /\ storage' = stored
       /\ settings' = getSettings(stored)
  /\ daysThreshold' = settings'.daysUntilRead
  /\ maxRetries' = DefaultMaxRetries
  /\ pc' = "mark_query"
  /\ log' = Append(log, Event("get", 0, TRUE, 0))
  /\ UNCHANGED <<list, clock, caller, candidates, i, retryCount,
                 successCount, waitTime, readCount, deleteCount, result,
                 error>>

\* faulty variant of GetSettingsFail: the error is dropped and the run goes
\* on with the defaults
GetSettingsFail_UsesDefaults ==
  /\ pc = "getSettings"
  /\ UNCHANGED <<classifyVars, listenerVars, optionsVars>>
  /\ UNCHANGED <<snapshot, queriedAt, inflight, list0>>
  /\ settings' = getSettings(<< >>)
  /\ daysThreshold' = settings'.daysUntilRead
  /\ maxRetries' = DefaultMaxRetries
  /\ pc' = "mark_query"
  /\ log' = Append(log, Event("get", 0, FALSE, 0))
  /\ UNCHANGED <<list, storage, clock, caller, candidates, i, retryCount,
                 successCount, waitTime, readCount, deleteCount, result,
                 error>>

\* chrome.storage.local.get rejects; the catch of processReadingList rethrows
GetSettingsFail ==
  /\ pc = "getSettings"
  /\ UNCHANGED <<classifyVars, listenerVars, optionsVars>>
  /\ UNCHANGED <<snapshot, queriedAt, inflight, list0>>
  /\ error' = "StorageUnavailable"
  /\ pc' = "rejected"
  /\ log' = Append(log, Event("get", 0, FALSE, 0))
  /\ UNCHANGED <<list, storage, clock, caller, settings, daysThreshold,
                 maxRetries, candidates, i, retryCount, successCount,
                 waitTime, readCount, deleteCount, result>>

(***************************************************************************)
(* markAsReadIfOlder                                                       *)
(***************************************************************************)
\* faulty variant of Settled: the mutator call is not awaited
Settled_NotAwaited == inflight

\* await updateEntry / removeEntry: the function goes on only when the
\* request it issued has settled
Settled ==
  IF pc = "mark_call"
  THEN inflight \ {Request("updateEntry", candidates[i].url, retryCount)}
  ELSE IF pc = "delete_call"
       THEN inflight \ {Request("removeEntry", candidates[i].url, retryCount)}
       ELSE inflight

\* return successCount: to processReadingList, which goes on to call
\* deleteIfOlder(settings.daysUntilDelete), or to the outside caller
MarkReturn(cnt) ==
  /\ inflight' = Settled
  /\ successCount' = cnt
  /\ i' = 0
  /\ retryCount' = 0
  /\ IF caller = "processReadingList"
     THEN /\ readCount' = cnt
          /\ daysThreshold' = settings.daysUntilDelete
          /\ maxRetries' = DefaultMaxRetries
          /\ pc' = "delete_query"
          /\ UNCHANGED result
     ELSE /\ result' = cnt
          /\ pc' = "done"
          /\ UNCHANGED <<readCount, daysThreshold, maxRetries>>

\* for (const entry of entriesToMarkAsRead) { let retryCount = 0; while ... }
\* positioned at entry k of cands
MarkFor(cands, k, cnt) ==
  IF k <= Len(cands) /\ LoopGuard(0, maxRetries)
  THEN /\ i' = k
       /\ retryCount' = 0
       /\ successCount' = cnt
       /\ pc' = "mark_call"
       /\ inflight' = Settled \cup {Request("updateEntry", cands[k].url, 0)}
       /\ UNCHANGED <<readCount, result, daysThreshold, maxRetries>>
  ELSE MarkReturn(cnt)

\* the while condition, evaluated again after a catch block
MarkWhile(rc) ==
  IF LoopGuard(rc, maxRetries)
  THEN /\ retryCount' = rc
       /\ pc' = "mark_call"
       /\ inflight' =
            Settled \cup {Request("updateEntry", candidates[i].url, rc)}
       /\ UNCHANGED <<i, successCount, readCount, result, daysThreshold,
                      maxRetries>>
  ELSE MarkFor(candidates, i + 1, successCount)

\* getReadingListEntries resolves; the candidates are filtered at Date.now()
MarkQueryOk ==
  /\ pc = "mark_query"
  /\ UNCHANGED <<classifyVars, listenerVars, optionsVars>>
  /\ UNCHANGED list0
  /\ snapshot' = getReadingListEntries(list)
  /\ queriedAt' = clock
  /\ LET now == clock
         cands == entriesToMarkAsRead(snapshot', now, daysThreshold)
     IN  /\ candidates' = cands
         /\ MarkFor(cands, 1, 0)
  /\ log' = Append(log, Event("query", 0, TRUE, 0))
  /\ UNCHANGED <<list, storage, clock, caller, settings, waitTime,
                 deleteCount, error>>

\* chrome.readingList.query rejects; nothing catches it but the rethrowing
\* catch blocks
MarkQueryFail ==
  /\ pc = "mark_query"
  /\ UNCHANGED <<classifyVars, listenerVars, optionsVars>>
  /\ UNCHANGED <<snapshot, queriedAt, inflight, list0>>
  /\ error' = "SourceUnavailable"
  /\ pc' = "rejected"
  /\ log' = Append(log, Event("query", 0, FALSE, 0))
  /\ UNCHANGED <<list, storage, clock, caller, settings, daysThreshold,
                 maxRetries, candidates, i, retryCount, successCount,
                 waitTime, readCount, deleteCount, result>>

\* updateEntry resolves: successCount++; break
MarkUpdateOk ==
  /\ pc = "mark_call"
  /\ UNCHANGED <<classifyVars, listenerVars, optionsVars>>
  /\ UNCHANGED <<snapshot, queriedAt, list0>>
  /\ list' = UpdateEntry(list, candidates[i].url)
  /\ log' = Append(log, Event("updateEntry", candidates[i].url, TRUE, 0))
  /\ MarkFor(candidates, i + 1, successCount + 1)
  /\ UNCHANGED <<storage, clock, caller, settings, candidates, waitTime,
                 deleteCount, error>>

\* faulty variant of MarkGiveUp: the last error is thrown out of the loop
MarkGiveUp_Throw(rc) ==
  /\ retryCount' = rc
  /\ pc' = "rejected"
  /\ error' = "MutationFailed"
  /\ inflight' = Settled
  /\ log' = Append(log, Event("updateEntry", candidates[i].url, FALSE, 0))
  /\ UNCHANGED <<i, successCount, readCount, result, daysThreshold,
                 maxRetries, waitTime>>

\* after the last failed attempt: console.error, then the while condition
MarkGiveUp(rc) ==
  /\ MarkWhile(rc)
  /\ UNCHANGED <<waitTime, error>>
  /\ log' = Append(log, Event("updateEntry", candidates[i].url, FALSE, 0))

\* updateEntry rejects: retryCount++, then give up or set the backoff timer
MarkUpdateFail ==
  /\ pc = "mark_call"
  /\ UNCHANGED <<classifyVars, listenerVars, optionsVars>>
  /\ UNCHANGED <<snapshot, queriedAt, list0>>
  /\ LET rc == retryCount + 1
     IN  IF RetriesExhausted(rc, maxRetries)
         THEN MarkGiveUp(rc)
         ELSE /\ retryCount' = rc
              /\ waitTime' = BackoffMs(rc)
              /\ pc' = "mark_wait"
              /\ inflight' = Settled
              /\ log' = Append(Append(log,
                           Event("updateEntry", candidates[i].url, FALSE, 0)),
                           Event("setTimeout", candidates[i].url, TRUE,
                                 BackoffMs(rc)))
              /\ UNCHANGED <<i, successCount, readCount, result,
                             daysThreshold, maxRetries, error>>
  /\ UNCHANGED <<list, storage, clock, caller, settings, candidates,
                 deleteCount>>

\* faulty variant of MarkBackoffElapsed: the promise of the timer is never
\* resolved
MarkBackoffElapsed_NeverResolves ==
  /\ pc = "mark_wait"
  /\ UNCHANGED vars

\* the backoff timer fires after waitTime
MarkBackoffElapsed ==
  /\ pc = "mark_wait"
  /\ UNCHANGED <<classifyVars, listenerVars, optionsVars>>
  /\ UNCHANGED <<snapshot, queriedAt, list0>>
  /\ clock' = PlusMs(clock, waitTime)
  /\ waitTime' = 0
  /\ MarkWhile(retryCount)
  /\ UNCHANGED <<list, storage, caller, settings, candidates, deleteCount,
                 error, log>>

(***************************************************************************)
(* deleteIfOlder                                                           *)
(***************************************************************************)
\* faulty variant of DeleteReturn: the count starts at one
DeleteReturn_OffByOne(cnt) ==
  /\ inflight' = Settled
  /\ successCount' = cnt + 1
  /\ i' = 0
  /\ retryCount' = 0
  /\ pc' = "done"
  /\ IF caller = "processReadingList"
     THEN /\ deleteCount' = cnt + 1
          /\ UNCHANGED result
     ELSE /\ result' = cnt + 1
          /\ UNCHANGED deleteCount

\* return successCount: to processReadingList, which then completes, or to
\* the outside caller
DeleteReturn(cnt) ==
  /\ inflight' = Settled
  /\ successCount' = cnt
  /\ i' = 0
  /\ retryCount' = 0
  /\ pc' = "done"
  /\ IF caller = "processReadingList"
     THEN /\ deleteCount' = cnt
          /\ UNCHANGED result
     ELSE /\ result' = cnt
          /\ UNCHANGED deleteCount

\* for (const entry of entriesToDelete) { let retryCount = 0; while ... }
DeleteFor(cands, k, cnt) ==
  IF k <= Len(cands) /\ LoopGuard(0, maxRetries)
  THEN /\ i' = k
       /\ retryCount' = 0
       /\ successCount' = cnt
       /\ pc' = "delete_call"
       /\ inflight' = Settled \cup {Request("removeEntry", cands[k].url, 0)}
       /\ UNCHANGED <<deleteCount, result>>
  ELSE DeleteReturn(cnt)

\* the while condition, evaluated again after a catch block
DeleteWhile(rc) ==
  IF LoopGuard(rc, maxRetries)
  THEN /\ retryCount' = rc
       /\ pc' = "delete_call"
       /\ inflight' =
            Settled \cup {Request("removeEntry", candidates[i].url, rc)}
       /\ UNCHANGED <<i, successCount, deleteCount, result>>
  ELSE DeleteFor(candidates, i + 1, successCount)

\* getReadingListEntries resolves; the candidates are filtered at Date.now()
DeleteQueryOk ==
  /\ pc = "delete_query"
  /\ UNCHANGED <<classifyVars, listenerVars, optionsVars>>
  /\ UNCHANGED list0
  /\ snapshot' = getReadingListEntries(list)
  /\ queriedAt' = clock
  /\ LET now == clock
         cands == entriesToDelete(snapshot', now, daysThreshold)
     IN  /\ candidates' = cands
         /\ DeleteFor(cands, 1, 0)
  /\ log' = Append(log, Event("query", 0, TRUE, 0))
  /\ UNCHANGED <<list, storage, clock, caller, settings, daysThreshold,
                 maxRetries, waitTime, readCount, error>>

\* chrome.readingList.query rejects; nothing catches it but the rethrowing
\* catch blocks
DeleteQueryFail ==
  /\ pc = "delete_query"
  /\ UNCHANGED <<classifyVars, listenerVars, optionsVars>>
  /\ UNCHANGED <<snapshot, queriedAt, inflight, list0>>
  /\ error' = "SourceUnavailable"
  /\ pc' = "rejected"
  /\ log' = Append(log, Event("query", 0, FALSE, 0))
  /\ UNCHANGED <<list, storage, clock, caller, settings, daysThreshold,
                 maxRetries, candidates, i, retryCount, successCount,
                 waitTime, readCount, deleteCount, result>>

\* faulty variant of DeleteRemoveOk: successCount++ is left out
DeleteRemoveOk_Uncounted ==
  /\ pc = "delete_call"
  /\ UNCHANGED <<classifyVars, listenerVars, optionsVars>>
  /\ UNCHANGED <<snapshot, queriedAt, list0>>
  /\ list' = RemoveEntry(list, candidates[i].url)
  /\ log' = Append(log, Event("removeEntry", candidates[i].url, TRUE, 0))
  /\ DeleteFor(candidates, i + 1, successCount)
  /\ UNCHANGED <<storage, clock, caller, settings, daysThreshold,
                 maxRetries, candidates, waitTime, readCount, error>>

\* removeEntry resolves: successCount++; break
DeleteRemoveOk ==
  /\ pc = "delete_call"
  /\ UNCHANGED <<classifyVars, listenerVars, optionsVars>>
  /\ UNCHANGED <<snapshot, queriedAt, list0>>
  /\ list' = RemoveEntry(list, candidates[i].url)
  /\ log' = Append(log, Event("removeEntry", candidates[i].url, TRUE, 0))
  /\ DeleteFor(candidates, i + 1, successCount + 1)
  /\ UNCHANGED <<storage, clock, caller, settings, daysThreshold,
                 maxRetries, candidates, waitTime, readCount, error>>

\* faulty variant of DeleteGiveUp: the last error is thrown out of the loop
DeleteGiveUp_Throw(rc) ==
  /\ retryCount' = rc
  /\ pc' = "rejected"
  /\ error' = "MutationFailed"
  /\ inflight' = Settled
  /\ log' = Append(log, Event("removeEntry", candidates[i].url, FALSE, 0))
  /\ UNCHANGED <<i, successCount, deleteCount, result, waitTime>>

\* after the last failed attempt: console.error, then the while condition
DeleteGiveUp(rc) ==
  /\ DeleteWhile(rc)
  /\ UNCHANGED <<waitTime, error>>
  /\ log' = Append(log, Event("removeEntry", candidates[i].url, FALSE, 0))

\* removeEntry rejects: retryCount++, then give up or set the backoff timer
DeleteRemoveFail ==
  /\ pc = "delete_call"
  /\ UNCHANGED <<classifyVars, listenerVars, optionsVars>>
  /\ UNCHANGED <<snapshot, queriedAt, list0>>
  /\ LET rc == retryCount + 1
     IN  IF RetriesExhausted(rc, maxRetries)
         THEN DeleteGiveUp(rc)
         ELSE /\ retryCount' = rc
              /\ waitTime' = BackoffMs(rc)
              /\ pc' = "delete_wait"
              /\ inflight' = Settled
              /\ log' = Append(Append(log,
                           Event("removeEntry", candidates[i].url, FALSE, 0)),
                           Event("setTimeout", candidates[i].url, TRUE,
                                 BackoffMs(rc)))
              /\ UNCHANGED <<i, successCount, deleteCount, result, error>>
  /\ UNCHANGED <<list, storage, clock, caller, settings, daysThreshold,
                 maxRetries, candidates, readCount>>

\* the backoff timer fires after waitTime
DeleteBackoffElapsed ==
  /\ pc = "delete_wait"
  /\ UNCHANGED <<classifyVars, listenerVars, optionsVars>>
  /\ UNCHANGED <<snapshot, queriedAt, list0>>
  /\ clock' = PlusMs(clock, waitTime)
  /\ waitTime' = 0
  /\ DeleteWhile(retryCount)
  /\ UNCHANGED <<list, storage, caller, settings, daysThreshold, maxRetries,
                 candidates, readCount, error, log>>

Next ==
  \/ CallProcessReadingList
  \/ CallMarkAsReadIfOlder
  \/ CallDeleteIfOlder
  \/ GetSettingsOk
  \/ GetSettingsFail
  \/ MarkQueryOk
  \/ MarkQueryFail
  \/ MarkUpdateOk
  \/ MarkUpdateFail
  \/ MarkBackoffElapsed
  \/ DeleteQueryOk
  \/ DeleteQueryFail
  \/ DeleteRemoveOk
  \/ DeleteRemoveFail
  \/ DeleteBackoffElapsed

Spec == Init /\ [][Next]_vars

\* a pending collaborator call or backoff timer settles
Settles ==
  \/ GetSettingsOk
  \/ GetSettingsFail
  \/ MarkQueryOk
  \/ MarkQueryFail
  \/ MarkUpdateOk
  \/ MarkUpdateFail
  \/ MarkBackoffElapsed
  \/ DeleteQueryOk
  \/ DeleteQueryFail
  \/ DeleteRemoveOk
  \/ DeleteRemoveFail
  \/ DeleteBackoffElapsed

\* Spec under the assumption that whatever is pending settles eventually,
\* one way or the other
FairSpec == Init /\ [][Next]_vars /\ WF_vars(Settles)

TypeOK ==
  /\ pc \in {"idle", "getSettings", "mark_query", "mark_call", "mark_wait",
             "delete_query", "delete_call", "delete_wait", "done",
             "rejected"}
  /\ Len(list) <= MaxEntries
  /\ i \in 0..Len(candidates)
  /\ successCount \in 0..Len(candidates)

(***************************************************************************)
(* initializeExtension of background.ts: the onStartup and the onInstalled *)
(* listener each call processReadingList.  The runs the listeners start    *)
(* share the reading list, the settings store and the clock; each has its  *)
(* own locals, kept in runs[t] for the listener t.  A listener fires at    *)
(* most once.                                                              *)
(***************************************************************************)
Triggers == {"onStartup", "onInstalled"}

\* reading lists of the browser when the listeners fire
ListenerLists ==
  { <<>>,
    <<[url |-> 1, hasBeenRead |-> FALSE,
       creationTime |-> Minus(Clock0, Time(65, 0))]>>,
    <<[url |-> 1, hasBeenRead |-> TRUE,
       creationTime |-> Minus(Clock0, Time(65, 0))]>>,
    <<[url |-> 1, hasBeenRead |-> FALSE,
       creationTime |-> Minus(Clock0, Time(30, 0))],
      [url |-> 2, hasBeenRead |-> FALSE,
       creationTime |-> Minus(Clock0, Time(1, 0))]>> }

\* variables of the single-run specifications
singleRunVars == <<pc, caller, settings, daysThreshold, maxRetries,
                   candidates, i, retryCount, successCount, waitTime,
                   readCount, deleteCount, result, error, log, snapshot,
                   queriedAt, inflight, list0, classifyVars, listenerResult,
                   responses, optionsVars>>

\* a listener has just called processReadingList
NewRun ==
  [pc |-> "getSettings", settings |-> getSettings(<< >>), candidates |-> <<>>,
   i |-> 0, retryCount |-> 0, due |-> Clock0, failed |-> FALSE,
   promise |-> "pending"]

\* the later of two instants
Later(a, b) == IF Geq(a, b) THEN a ELSE b

\* faulty variant of ListenerCatch: the listener throws the error again
ListenerCatch_Rethrows(r) ==
  [r EXCEPT !.pc = "settled", !.failed = TRUE, !.promise = "rejected"]

\* processReadingList rejected: catch (error) { console.error(...) } of the
\* listener, whose promise is fulfilled
ListenerCatch(r) ==
  [r EXCEPT !.pc = "settled", !.failed = TRUE, !.promise = "fulfilled"]

\* processReadingList resolved: the listener is done
ListenerDone(r) == [r EXCEPT !.pc = "settled", !.promise = "fulfilled"]

\* return successCount of markAsReadIfOlder / deleteIfOlder
RunReturn(r, pass) ==
  IF pass = "mark"
  THEN [r EXCEPT !.pc = "delete_query", !.i = 0, !.retryCount = 0]
  ELSE ListenerDone([r EXCEPT !.i = 0, !.retryCount = 0])

\* the for loop positioned at entry k of cands
RunFor(r, pass, cands, k) ==
  IF k <= Len(cands) /\ LoopGuard(0, DefaultMaxRetries)
  THEN [r EXCEPT !.pc = pass \o "_call", !.candidates = cands, !.i = k,
                 !.retryCount = 0]
  ELSE RunReturn([r EXCEPT !.candidates = cands], pass)

\* the while condition, evaluated again after a catch block
RunWhile(r, pass, rc) ==
  IF LoopGuard(rc, DefaultMaxRetries)
  THEN [r EXCEPT !.pc = pass \o "_call", !.retryCount = rc]
  ELSE RunFor(r, pass, r.candidates, r.i + 1)

Passes == {"mark", "delete"}

InitListeners ==
  /\ list \in ListenerLists
  /\ Idle

\* chrome.runtime.onStartup / onInstalled fires: the listener calls
\* processReadingList
ListenerFires(t) ==
  /\ t \notin DOMAIN runs
  /\ runs' = [u \in DOMAIN runs \cup {t} |->
               IF u = t THEN NewRun ELSE runs[u]]
  /\ UNCHANGED <<list, storage, clock, singleRunVars>>

RunGetSettingsOk(t) ==
  /\ t \in DOMAIN runs
  /\ runs[t].pc = "getSettings"
  /\ \E stored \in Storages :
       /\ storage' = stored
       /\ runs' = [runs EXCEPT ![t] = [@ EXCEPT !.pc = "mark_query",
                                    !.settings = getSettings(stored)]]
  /\ UNCHANGED <<list, clock, singleRunVars>>

RunGetSettingsFail(t) ==
  /\ t \in DOMAIN runs
  /\ runs[t].pc = "getSettings"
  /\ runs' = [runs EXCEPT ![t] = ListenerCatch(@)]
  /\ UNCHANGED <<list, storage, clock, singleRunVars>>

\* getReadingListEntries resolves in markAsReadIfOlder / deleteIfOlder
RunQueryOk(t) ==
  /\ t \in DOMAIN runs
  /\ \E pass \in Passes :
       /\ runs[t].pc = pass \o "_query"
       /\ LET r == runs[t]
              entries == getReadingListEntries(list)
              now == clock
              cands == IF pass = "mark"
                       THEN entriesToMarkAsRead(entries, now,
                                                r.settings.daysUntilRead)
                       ELSE entriesToDelete(entries, now,
                                            r.settings.daysUntilDelete)
          IN  runs' = [runs EXCEPT ![t] = RunFor(r, pass, cands, 1)]
  /\ UNCHANGED <<list, storage, clock, singleRunVars>>

RunQueryFail(t) ==
  /\ t \in DOMAIN runs
  /\ runs[t].pc \in {"mark_query", "delete_query"}
  /\ runs' = [runs EXCEPT ![t] = ListenerCatch(@)]
  /\ UNCHANGED <<list, storage, clock, singleRunVars>>

\* updateEntry / removeEntry resolves: successCount++; break
RunMutateOk(t) ==
  /\ t \in DOMAIN runs
  /\ \E pass \in Passes :
       /\ runs[t].pc = pass \o "_call"
       /\ LET r == runs[t]
              url == r.candidates[r.i].url
          IN  /\ list' = IF pass = "mark" THEN UpdateEntry(list, url)
                         ELSE RemoveEntry(list, url)
              /\ runs' = [runs EXCEPT
                            ![t] = RunFor(r, pass, r.candidates, r.i + 1)]
  /\ UNCHANGED <<storage, clock, singleRunVars>>

\* updateEntry / removeEntry rejects: retryCount++, then give up or set the
\* backoff timer
RunMutateFail(t) ==
  /\ t \in DOMAIN runs
  /\ \E pass \in Passes :
       /\ runs[t].pc = pass \o "_call"
       /\ LET r == runs[t]
              rc == r.retryCount + 1
          IN  runs' = [runs EXCEPT ![t] =
                IF RetriesExhausted(rc, DefaultMaxRetries)
                THEN RunWhile(r, pass, rc)
                ELSE [r EXCEPT !.pc = pass \o "_wait", !.retryCount = rc,
                               !.due = PlusMs(clock, BackoffMs(rc))]]
  /\ UNCHANGED <<list, storage, clock, singleRunVars>>

\* the backoff timer of the run fires: it is due by then
RunBackoffElapsed(t) ==
  /\ t \in DOMAIN runs
  /\ \E pass \in Passes :
       /\ runs[t].pc = pass \o "_wait"
       /\ runs' = [runs EXCEPT
                     ![t] = RunWhile(runs[t], pass, runs[t].retryCount)]
  /\ clock' = Later(clock, runs[t].due)
  /\ UNCHANGED <<list, storage, singleRunVars>>

NextListeners ==
  \/ \E t \in Triggers : ListenerFires(t)
  \/ \E t \in Triggers : RunGetSettingsOk(t)
  \/ \E t \in Triggers : RunGetSettingsFail(t)
  \/ \E t \in Triggers : RunQueryOk(t)
  \/ \E t \in Triggers : RunQueryFail(t)
  \/ \E t \in Triggers : RunMutateOk(t)
  \/ \E t \in Triggers : RunMutateFail(t)
  \/ \E t \in Triggers : RunBackoffElapsed(t)

SpecListeners == InitListeners /\ [][NextListeners]_vars

(***************************************************************************)
(* markAsReadIfOlder and deleteIfOlder called directly on reading lists    *)
(* whose entries are as old as a threshold or one millisecond younger.     *)
(***************************************************************************)
BoundaryAges ==
  { Time(29, MsPerDay - 1), Time(30, 0), Time(59, MsPerDay - 1), Time(60, 0) }

BoundaryLists ==
  UNION { { [k \in 1..n |-> [url |-> k, hasBeenRead |-> f[k][1],
                              creationTime |-> Minus(Clock0, f[k][2])]]
            : f \in [1..n -> BOOLEAN \X BoundaryAges] }
          : n \in 0..MaxEntries }

InitBoundary ==
  /\ list \in BoundaryLists
  /\ Idle

NextExecutor ==
  \/ CallMarkAsReadIfOlder
  \/ CallDeleteIfOlder
  \/ MarkQueryOk
  \/ MarkQueryFail
  \/ MarkUpdateOk
  \/ MarkUpdateFail
  \/ MarkBackoffElapsed
  \/ DeleteQueryOk
  \/ DeleteQueryFail
  \/ DeleteRemoveOk
  \/ DeleteRemoveFail
  \/ DeleteBackoffElapsed

SpecBoundary == InitBoundary /\ [][NextExecutor]_vars

(***************************************************************************)
(* The markEntriesAsRead / deleteOldEntries variant of the background      *)
(* script: thresholdTime is a point in time, every mutator call is tried   *)
(* once and its error is logged and dropped, both functions return void.   *)
(***************************************************************************)
\* ages of the entries of the reading list of this variant
EntryAges ==
  { Time(1, 0), Time(30, 0), Time(30, 1), Time(60, 0), Time(60, 1) }

EntryLists ==
  UNION { { [k \in 1..n |-> [url |-> k, hasBeenRead |-> f[k][1],
                              creationTime |-> Minus(Clock0, f[k][2])]]
            : f \in [1..n -> BOOLEAN \X EntryAges] }
          : n \in 0..MaxEntries }

\* state of background.ts that this variant does not have
retryVars == <<storage, settings, maxRetries, retryCount, successCount,
               waitTime, readCount, deleteCount, result>>

\* now - days * millisecondsPerDay
ThresholdTime(now, days) == Minus(now, DaysToMs(days))

\* entries.filter(...) of markEntriesAsRead
unreadEntriesBefore(entries, thresholdTime) ==
  SelectSeq(entries, LAMBDA entry :
              ~entry.hasBeenRead /\ Less(entry.creationTime, thresholdTime))

\* entries.filter(...) of deleteOldEntries
entriesBefore(entries, thresholdTime) ==
  SelectSeq(entries, LAMBDA entry : Less(entry.creationTime, thresholdTime))

InitEntries ==
  /\ list \in EntryLists
  /\ Idle

CallMarkEntriesAsRead ==
  /\ pc = "idle"
  /\ \E d \in DayArgs : daysThreshold' = d
  /\ caller' = "markEntriesAsRead"
  /\ pc' = "entries_mark_query"
  /\ UNCHANGED <<list, clock, candidates, i, error, log, snapshot, queriedAt,
                 inflight, list0, retryVars, classifyVars,
                 listenerVars, optionsVars>>

CallDeleteOldEntries ==
  /\ pc = "idle"
  /\ \E d \in DayArgs : daysThreshold' = d
  /\ caller' = "deleteOldEntries"
  /\ pc' = "entries_delete_query"
  /\ UNCHANGED <<list, clock, candidates, i, error, log, snapshot, queriedAt,
                 inflight, list0, retryVars, classifyVars,
                 listenerVars, optionsVars>>

\* the message the listener puts into a failure response:
\* error instanceof Error ? error.message : unknown-error text; the
\* collaborators reject with Error objects
MessageOf(err) ==
  IF err \in {"StorageUnavailable", "SourceUnavailable"} THEN err
  ELSE "unknown error"

Response(success, message) == [success |-> success, message |-> message]

\* faulty variant of Resolve: the then callback sends nothing
Resolve_Silent ==
  /\ pc' = "done"
  /\ UNCHANGED responses

\* the function called from outside resolves; for a run the onMessage
\* listener started, the then callback sends the success response
Resolve ==
  /\ pc' = "done"
  /\ responses' = IF caller = "onMessage"
                  THEN Append(responses, Response(TRUE, "completed"))
                  ELSE responses

\* the function called from outside rejects with err; for a run the
\* onMessage listener started, the catch callback sends the failure response
Reject(err) ==
  /\ pc' = "rejected"
  /\ error' = err
  /\ responses' = IF caller = "onMessage"
                  THEN Append(responses, Response(FALSE, MessageOf(err)))
                  ELSE responses

\* markEntriesAsRead / deleteOldEntries returns: in processReadingList
\* deleteOldEntries(settings.daysUntilDelete) follows markEntriesAsRead
EntriesReturn(op) ==
  IF caller = "onMessage" /\ op = "updateEntry"
  THEN /\ pc' = "entries_delete_query"
       /\ UNCHANGED responses
  ELSE Resolve

\* the argument markEntriesAsRead / deleteOldEntries was called with:
\* processReadingList passes the setting
DaysArgument(key) ==
  IF caller = "onMessage" THEN settings[key] ELSE daysThreshold

\* for (const entry of ...) { try { await mutator } catch { console.error } }
\* positioned at entry k of cands; after the last entry the function
\* resolves
EntriesFor(op, at, cands, k) ==
  IF k <= Len(cands)
  THEN /\ i' = k
       /\ pc' = at
       /\ inflight' = {Request(op, cands[k].url, 0)}
       /\ UNCHANGED responses
  ELSE /\ i' = 0
       /\ inflight' = {}
       /\ EntriesReturn(op)

\* getReadingListEntries resolves; the entries are filtered at Date.now()
MarkEntriesQueryOk ==
  /\ pc = "entries_mark_query"
  /\ snapshot' = list
  /\ queriedAt' = clock
  /\ LET now == clock
         thresholdTime == ThresholdTime(now, DaysArgument("daysUntilRead"))
         cands == unreadEntriesBefore(list, thresholdTime)
     IN  /\ candidates' = cands
         /\ EntriesFor("updateEntry", "entries_mark_call", cands, 1)
  /\ log' = Append(log, Event("query", 0, TRUE, 0))
  /\ UNCHANGED <<list, clock, caller, daysThreshold, error, list0,
                 retryVars, classifyVars,
                 runs, listenerResult, optionsVars>>

\* getReadingListEntries rejects; the outer catch rethrows
MarkEntriesQueryFail ==
  /\ pc = "entries_mark_query"
  /\ Reject("SourceUnavailable")
  /\ log' = Append(log, Event("query", 0, FALSE, 0))
  /\ UNCHANGED <<list, clock, caller, daysThreshold, candidates, i, snapshot,
                 queriedAt, inflight, list0, retryVars, classifyVars,
                 runs, listenerResult, optionsVars>>

\* updateEntry resolves
MarkEntriesUpdateOk ==
  /\ pc = "entries_mark_call"
  /\ list' = UpdateEntry(list, candidates[i].url)
  /\ log' = Append(log, Event("updateEntry", candidates[i].url, TRUE, 0))
  /\ EntriesFor("updateEntry", "entries_mark_call", candidates, i + 1)
  /\ UNCHANGED <<clock, caller, daysThreshold, candidates, error, snapshot,
                 queriedAt, list0, retryVars, classifyVars,
                 runs, listenerResult, optionsVars>>

\* updateEntry rejects: the inner catch logs the error
MarkEntriesUpdateFail ==
  /\ pc = "entries_mark_call"
  /\ log' = Append(log, Event("updateEntry", candidates[i].url, FALSE, 0))
  /\ EntriesFor("updateEntry", "entries_mark_call", candidates, i + 1)
  /\ UNCHANGED <<list, clock, caller, daysThreshold, candidates, error,
                 snapshot, queriedAt, list0, retryVars, classifyVars,
                 runs, listenerResult, optionsVars>>

\* getReadingListEntries resolves; the entries are filtered at Date.now()
DeleteOldQueryOk ==
  /\ pc = "entries_delete_query"
  /\ snapshot' = list
  /\ queriedAt' = clock
  /\ LET now == clock
         thresholdTime == ThresholdTime(now, DaysArgument("daysUntilDelete"))
         cands == entriesBefore(list, thresholdTime)
     IN  /\ candidates' = cands
         /\ EntriesFor("removeEntry", "entries_delete_call", cands, 1)
  /\ log' = Append(log, Event("query", 0, TRUE, 0))
  /\ UNCHANGED <<list, clock, caller, daysThreshold, error, list0,
                 retryVars, classifyVars,
                 runs, listenerResult, optionsVars>>

\* getReadingListEntries rejects; the outer catch rethrows
DeleteOldQueryFail ==
  /\ pc = "entries_delete_query"
  /\ Reject("SourceUnavailable")
  /\ log' = Append(log, Event("query", 0, FALSE, 0))
  /\ UNCHANGED <<list, clock, caller, daysThreshold, candidates, i, snapshot,
                 queriedAt, inflight, list0, retryVars, classifyVars,
                 runs, listenerResult, optionsVars>>

\* removeEntry resolves
DeleteOldRemoveOk ==
  /\ pc = "entries_delete_call"
  /\ list' = RemoveEntry(list, candidates[i].url)
  /\ log' = Append(log, Event("removeEntry", candidates[i].url, TRUE, 0))
  /\ EntriesFor("removeEntry", "entries_delete_call", candidates, i + 1)
  /\ UNCHANGED <<clock, caller, daysThreshold, candidates, error, snapshot,
                 queriedAt, list0, retryVars, classifyVars,
                 runs, listenerResult, optionsVars>>

\* removeEntry rejects: the inner catch logs the error
DeleteOldRemoveFail ==
  /\ pc = "entries_delete_call"
  /\ log' = Append(log, Event("removeEntry", candidates[i].url, FALSE, 0))
  /\ EntriesFor("removeEntry", "entries_delete_call", candidates, i + 1)
  /\ UNCHANGED <<list, clock, caller, daysThreshold, candidates, error,
                 snapshot, queriedAt, list0, retryVars, classifyVars,
                 runs, listenerResult, optionsVars>>

NextEntries ==
  \/ CallMarkEntriesAsRead
  \/ CallDeleteOldEntries
  \/ MarkEntriesQueryOk
  \/ MarkEntriesQueryFail
  \/ MarkEntriesUpdateOk
  \/ MarkEntriesUpdateFail
  \/ DeleteOldQueryOk
  \/ DeleteOldQueryFail
  \/ DeleteOldRemoveOk
  \/ DeleteOldRemoveFail

SpecEntries == InitEntries /\ [][NextEntries]_vars

(***************************************************************************)
(* The onMessage listener of this variant and the processReadingList run   *)
(* it starts: getSettings, markEntriesAsRead(settings.daysUntilRead),      *)
(* deleteOldEntries(settings.daysUntilDelete).                             *)
(***************************************************************************)
MessageActions == {"processReadingList", "somethingElse"}

\* chrome.runtime.onMessage delivers a message: the listener starts a run
\* and returns true, or does nothing and returns undefined
OnMessage ==
  /\ pc = "idle"
  /\ caller' = "onMessage"
  /\ \E action \in MessageActions :
       IF action = "processReadingList"
       THEN /\ pc' = "entries_getSettings"
            /\ listenerResult' = "true"
       ELSE /\ pc' = "ignored"
            /\ listenerResult' = "undefined"
  /\ UNCHANGED <<list, clock, daysThreshold, candidates, i, error, log,
                 snapshot, queriedAt, inflight, list0, retryVars,
                 classifyVars, runs, responses, optionsVars>>

\* chrome.storage.local.get resolves
EntriesGetSettingsOk ==
  /\ pc = "entries_getSettings"
  /\ \E stored \in Storages :
       /\ storage' = stored
       /\ settings' = getSettings(stored)
  /\ pc' = "entries_mark_query"
  /\ log' = Append(log, Event("get", 0, TRUE, 0))
  /\ UNCHANGED <<list, clock, caller, daysThreshold, candidates, i, error,
                 snapshot, queriedAt, inflight, list0, maxRetries,
                 retryCount, successCount, waitTime, readCount, deleteCount,
                 result, classifyVars, listenerVars, optionsVars>>

\* chrome.storage.local.get rejects; the catch of processReadingList rethrows
EntriesGetSettingsFail ==
  /\ pc = "entries_getSettings"
  /\ Reject("StorageUnavailable")
  /\ log' = Append(log, Event("get", 0, FALSE, 0))
  /\ UNCHANGED <<list, clock, caller, daysThreshold, candidates, i,
                 snapshot, queriedAt, inflight, list0, retryVars,
                 classifyVars, runs, listenerResult, optionsVars>>

NextMessages ==
  \/ OnMessage
  \/ EntriesGetSettingsOk
  \/ EntriesGetSettingsFail
  \/ MarkEntriesQueryOk
  \/ MarkEntriesQueryFail
  \/ MarkEntriesUpdateOk
  \/ MarkEntriesUpdateFail
  \/ DeleteOldQueryOk
  \/ DeleteOldQueryFail
  \/ DeleteOldRemoveOk
  \/ DeleteOldRemoveFail

SpecMessages == InitEntries /\ [][NextMessages]_vars

(***************************************************************************)
(* The classifyEntries variant of the background script.                   *)
(* calculateDaysSinceCreation reads Date.now() once per entry, so the      *)
(* clock may advance between two iterations of the loop.                   *)
(***************************************************************************)
MaxTicks == 1

\* ages of the entries handed to classifyEntries
ClassifyAges ==
  { Time(1, 0), Time(29, MsPerDay - 1), Time(30, 0), Time(59, MsPerDay - 1),
    Time(65, 0) }

\* thresholds handed to classifyEntries
ClassifyDays == { 30, 60 }

ClassifyLists ==
  UNION { { [k \in 1..n |-> [url |-> k, hasBeenRead |-> f[k][1],
                              creationTime |-> Minus(Clock0, f[k][2])]]
            : f \in [1..n -> BOOLEAN \X ClassifyAges] }
          : n \in 0..MaxEntries }

\* faulty variant of FloorDays: the quotient is rounded towards zero
FloorDays_Truncate(elapsedMilliseconds) ==
  IF elapsedMilliseconds.d < 0 /\ elapsedMilliseconds.ms > 0
  THEN elapsedMilliseconds.d + 1
  ELSE elapsedMilliseconds.d

\* Math.floor(elapsedMilliseconds / (1000 * 60 * 60 * 24))
FloorDays(elapsedMilliseconds) == elapsedMilliseconds.d

calculateDaysSinceCreation(creationTime, now) ==
  LET elapsedMilliseconds == Minus(now, creationTime)
  IN  FloorDays(elapsedMilliseconds)

\* faulty variant of ClassifyOne: the mark-read check comes first
ClassifyOne_ReadFirst(entry, daysSinceCreation, s) ==
  IF daysSinceCreation >= s.daysUntilRead /\ ~entry.hasBeenRead
  THEN "toMarkRead"
  ELSE IF daysSinceCreation >= s.daysUntilDelete THEN "toDelete"
       ELSE "none"

\* faulty variant of ClassifyOne: the read threshold is compared with >
ClassifyOne_StrictRead(entry, daysSinceCreation, s) ==
  IF daysSinceCreation >= s.daysUntilDelete THEN "toDelete"
  ELSE IF daysSinceCreation > s.daysUntilRead /\ ~entry.hasBeenRead
       THEN "toMarkRead"
       ELSE "none"

\* the if / else if of the loop body: where the entry is pushed
ClassifyOne(entry, daysSinceCreation, s) ==
  IF daysSinceCreation >= s.daysUntilDelete THEN "toDelete"
  ELSE IF daysSinceCreation >= s.daysUntilRead /\ ~entry.hasBeenRead
       THEN "toMarkRead"
       ELSE "none"

InitClassify ==
  /\ list \in ClassifyLists
  /\ settings \in [daysUntilRead : ClassifyDays, daysUntilDelete : ClassifyDays]
  /\ storage = << >>
  /\ clock = Clock0
  /\ pc = "classify"
  /\ caller = "classifyEntries"
  /\ i = 1
  /\ toMarkRead = <<>>
  /\ toDelete = <<>>
  /\ daysSince = <<>>
  /\ previous = <<>>
  /\ runs = << >>
  /\ listenerResult = "none"
  /\ responses = <<>>
  /\ isSaving = FALSE
  /\ saveMessage = NoMessage
  /\ messageTimers = 0
  /\ daysThreshold = NoValue
  /\ maxRetries = NoValue
  /\ candidates = <<>>
  /\ retryCount = 0
  /\ successCount = 0
  /\ waitTime = 0
  /\ readCount = NoValue
  /\ deleteCount = NoValue
  /\ result = NoValue
  /\ error = "none"
  /\ log = <<>>
  /\ snapshot = <<>>
  /\ queriedAt = Clock0
  /\ inflight = {}
  /\ list0 = list

\* faulty variant of Push: the entry is put in front
Push_Unshift(array, entry) == <<entry>> \o array

\* array.push(entry)
Push(array, entry) == Append(array, entry)

\* one iteration of for (const entry of entries)
ClassifyEntry ==
  /\ pc = "classify"
  /\ i <= Len(list)
  /\ LET entry == list[i]
         daysSinceCreation == calculateDaysSinceCreation(entry.creationTime,
                                                         clock)
         target == ClassifyOne(entry, daysSinceCreation, settings)
     IN  /\ daysSince' = Append(daysSince, daysSinceCreation)
         /\ toDelete' = IF target = "toDelete"
                        THEN Push(toDelete, entry) ELSE toDelete
         /\ toMarkRead' = IF target = "toMarkRead"
                          THEN Push(toMarkRead, entry) ELSE toMarkRead
  /\ i' = i + 1
  /\ UNCHANGED <<list, storage, clock, pc, caller, settings, daysThreshold,
                 maxRetries, candidates, retryCount, successCount, waitTime,
                 readCount, deleteCount, result, error, log, snapshot,
                 queriedAt, inflight, list0, previous, listenerVars, optionsVars>>

\* return { toMarkRead, toDelete }
ClassifyReturn ==
  /\ pc = "classify"
  /\ i > Len(list)
  /\ pc' = "classified"
  /\ UNCHANGED <<list, storage, clock, caller, settings, daysThreshold,
                 maxRetries, candidates, i, retryCount, successCount,
                 waitTime, readCount, deleteCount, result, error, log,
                 snapshot, queriedAt, inflight, list0, toMarkRead, toDelete,
                 daysSince, previous, listenerVars, optionsVars>>

\* a millisecond passes while the loop runs
ClassifyTick ==
  /\ pc = "classify"
  /\ Less(clock, PlusMs(Clock0, MaxTicks))
  /\ clock' = PlusMs(clock, 1)
  /\ UNCHANGED <<list, storage, pc, caller, settings, daysThreshold,
                 maxRetries, candidates, i, retryCount, successCount,
                 waitTime, readCount, deleteCount, result, error, log,
                 snapshot, queriedAt, inflight, list0, toMarkRead, toDelete,
                 daysSince, previous, listenerVars, optionsVars>>

\* faulty variant of ClassifyAgain: the two arrays live outside the
\* function and are not emptied
ClassifyAgain_KeepsArrays ==
  /\ pc = "classified"
  /\ caller = "classifyEntries"
  /\ previous = <<>>
  /\ previous' = <<[toMarkRead |-> toMarkRead, toDelete |-> toDelete]>>
  /\ pc' = "classify"
  /\ i' = 1
  /\ daysSince' = <<>>
  /\ UNCHANGED <<list, storage, clock, caller, settings, daysThreshold,
                 maxRetries, candidates, retryCount, successCount, waitTime,
                 readCount, deleteCount, result, error, log, snapshot,
                 queriedAt, inflight, list0, toMarkRead, toDelete,
                 listenerVars, optionsVars>>

\* classifyEntries is called once more with the same entries and settings:
\* const toDelete = [], const toMarkRead = [] and the loop starts again
ClassifyAgain ==
  /\ pc = "classified"
  /\ caller = "classifyEntries"
  /\ previous = <<>>
  /\ previous' = <<[toMarkRead |-> toMarkRead, toDelete |-> toDelete]>>
  /\ pc' = "classify"
  /\ i' = 1
  /\ toMarkRead' = <<>>
  /\ toDelete' = <<>>
  /\ daysSince' = <<>>
  /\ UNCHANGED <<list, storage, clock, caller, settings, daysThreshold,
                 maxRetries, candidates, retryCount, successCount, waitTime,
                 readCount, deleteCount, result, error, log, snapshot,
                 queriedAt, inflight, list0, listenerVars, optionsVars>>

NextClassify ==
  \/ ClassifyEntry
  \/ ClassifyReturn
  \/ ClassifyTick
  \/ ClassifyAgain

SpecClassify == InitClassify /\ [][NextClassify]_vars

(***************************************************************************)
(* processReadingListEntries of the classifyEntries variant: settings and  *)
(* entries are fetched once, the entries are classified (ClassifyEntry,    *)
(* ClassifyTick, ClassifyReturn), then deleteEntry is awaited for every    *)
(* entry of toDelete and markEntryAsRead for every entry of toMarkRead.    *)
(* Neither loop has a try / catch of its own.                              *)
(***************************************************************************)
\* state of the other variants that this one does not have
executorVars == <<daysThreshold, maxRetries, candidates, retryCount,
                  successCount, waitTime, readCount, deleteCount, result,
                  queriedAt, list0, previous, listenerVars, optionsVars>>

InitExecutor ==
  /\ list \in ClassifyLists
  /\ Idle

CallProcessReadingListEntries ==
  /\ pc = "idle"
  /\ caller' = "processReadingListEntries"
  /\ pc' = "executor_getSettings"
  /\ UNCHANGED <<list, storage, clock, settings, i, error, log, snapshot,
                 inflight, toMarkRead, toDelete, daysSince, executorVars>>

\* chrome.storage.local.get resolves
ExecutorGetSettingsOk ==
  /\ pc = "executor_getSettings"
  /\ \E stored \in Storages :
       /\ storage' = stored
       /\ settings' = getSettings(stored)
  /\ pc' = "executor_query"
  /\ log' = Append(log, Event("get", 0, TRUE, 0))
  /\ UNCHANGED <<list, clock, caller, i, error, snapshot, inflight,
                 toMarkRead, toDelete, daysSince, executorVars>>

\* chrome.storage.local.get rejects; the catch rethrows
ExecutorGetSettingsFail ==
  /\ pc = "executor_getSettings"
  /\ error' = "StorageUnavailable"
  /\ pc' = "rejected"
  /\ log' = Append(log, Event("get", 0, FALSE, 0))
  /\ UNCHANGED <<list, storage, clock, caller, settings, i, snapshot,
                 inflight, toMarkRead, toDelete, daysSince, executorVars>>

\* getReadingListEntries resolves; classifyEntries(entries, settings) starts
ExecutorQueryOk ==
  /\ pc = "executor_query"
  /\ snapshot' = getReadingListEntries(list)
  /\ i' = 1
  /\ pc' = "classify"
  /\ log' = Append(log, Event("query", 0, TRUE, 0))
  /\ UNCHANGED <<list, storage, clock, caller, settings, error, inflight,
                 toMarkRead, toDelete, daysSince, executorVars>>

\* getReadingListEntries rejects; the catch rethrows
ExecutorQueryFail ==
  /\ pc = "executor_query"
  /\ error' = "SourceUnavailable"
  /\ pc' = "rejected"
  /\ log' = Append(log, Event("query", 0, FALSE, 0))
  /\ UNCHANGED <<list, storage, clock, caller, settings, i, snapshot,
                 inflight, toMarkRead, toDelete, daysSince, executorVars>>

\* for (const entry of classified.toMarkRead) positioned at entry k; after
\* the last entry the function resolves
MarkReadLoop(k) ==
  IF k <= Len(toMarkRead)
  THEN /\ i' = k
       /\ pc' = "executor_mark"
       /\ inflight' = {Request("updateEntry", toMarkRead[k].url, 0)}
  ELSE /\ i' = 0
       /\ pc' = "done"
       /\ inflight' = {}

\* for (const entry of classified.toDelete) positioned at entry k; after
\* the last entry the mark-read loop starts
DeleteLoop(k) ==
  IF k <= Len(toDelete)
  THEN /\ i' = k
       /\ pc' = "executor_delete"
       /\ inflight' = {Request("removeEntry", toDelete[k].url, 0)}
  ELSE MarkReadLoop(1)

\* classifyEntries has returned to processReadingListEntries
ExecutorClassified ==
  /\ pc = "classified"
  /\ caller = "processReadingListEntries"
  /\ DeleteLoop(1)
  /\ UNCHANGED <<list, storage, clock, caller, settings, error, log,
                 snapshot, toMarkRead, toDelete, daysSince, executorVars>>

\* deleteEntry: removeEntry resolves
DeleteEntryOk ==
  /\ pc = "executor_delete"
  /\ list' = RemoveEntry(list, toDelete[i].url)
  /\ log' = Append(log, Event("removeEntry", toDelete[i].url, TRUE, 0))
  /\ DeleteLoop(i + 1)
  /\ UNCHANGED <<storage, clock, caller, settings, error, snapshot,
                 toMarkRead, toDelete, daysSince, executorVars>>

\* deleteEntry: removeEntry rejects, deleteEntry rethrows, the error leaves
\* the for loop and the catch of processReadingListEntries rethrows it
DeleteEntryFail ==
  /\ pc = "executor_delete"
  /\ log' = Append(log, Event("removeEntry", toDelete[i].url, FALSE, 0))
  /\ error' = "MutationFailed"
  /\ pc' = "rejected"
  /\ inflight' = {}
  /\ UNCHANGED <<list, storage, clock, caller, settings, i, snapshot,
                 toMarkRead, toDelete, daysSince, executorVars>>

\* markEntryAsRead: updateEntry resolves
MarkEntryAsReadOk ==
  /\ pc = "executor_mark"
  /\ list' = UpdateEntry(list, toMarkRead[i].url)
  /\ log' = Append(log, Event("updateEntry", toMarkRead[i].url, TRUE, 0))
  /\ MarkReadLoop(i + 1)
  /\ UNCHANGED <<storage, clock, caller, settings, error, snapshot,
                 toMarkRead, toDelete, daysSince, executorVars>>

\* markEntryAsRead: updateEntry rejects, markEntryAsRead rethrows, the error
\* leaves the for loop and the catch of processReadingListEntries rethrows
MarkEntryAsReadFail ==
  /\ pc = "executor_mark"
  /\ log' = Append(log, Event("updateEntry", toMarkRead[i].url, FALSE, 0))
  /\ error' = "MutationFailed"
  /\ pc' = "rejected"
  /\ inflight' = {}
  /\ UNCHANGED <<list, storage, clock, caller, settings, i, snapshot,
                 toMarkRead, toDelete, daysSince, executorVars>>

NextProcessEntries ==
  \/ CallProcessReadingListEntries
  \/ ExecutorGetSettingsOk
  \/ ExecutorGetSettingsFail
  \/ ExecutorQueryOk
  \/ ExecutorQueryFail
  \/ ClassifyEntry
  \/ ClassifyTick
  \/ ClassifyReturn
  \/ ExecutorClassified
  \/ DeleteEntryOk
  \/ DeleteEntryFail
  \/ MarkEntryAsReadOk
  \/ MarkEntryAsReadFail

SpecProcessEntries == InitExecutor /\ [][NextProcessEntries]_vars

(***************************************************************************)
(* Both variants of the background script side by side: a behaviour is a   *)
(* behaviour of background.ts or one of classifyEntries.                   *)
(***************************************************************************)
InitVariants == Init \/ InitClassify

NextVariants == Next \/ NextClassify

SpecVariants == InitVariants /\ [][NextVariants]_vars

(***************************************************************************)
(* Vocabulary of the properties.                                           *)
(***************************************************************************)
Mutators == {"updateEntry", "removeEntry"}

\* positions of the log at which op was requested for url
Calls(op, url) ==
  { k \in 1..Len(log) : log[k].op = op /\ log[k].url = url }

Attempts(op, url) == Cardinality(Calls(op, url))

Succeeded(op, url) == \E k \in Calls(op, url) : log[k].ok

\* at least one attempt and none of them succeeded
AllFailed(op, url) ==
  /\ Calls(op, url) # {}
  /\ \A k \in Calls(op, url) : ~log[k].ok

\* number of failed attempts of op on url among the first k log entries
FailuresUpTo(op, url, k) ==
  Cardinality({ j \in 1..k : log[j].op = op /\ log[j].url = url
                                /\ ~log[j].ok })

RECURSIVE SumOfWaits(_)
\* total of the delays of the timers set among the first k log entries
SumOfWaits(k) ==
  IF k = 0 THEN 0
  ELSE SumOfWaits(k - 1) + (IF log[k].op = "setTimeout" THEN log[k].ms ELSE 0)

\* a backoff timer is pending
Waiting == pc \in {"mark_wait", "delete_wait"}

\* markAsReadIfOlder has returned to its caller
MarkFinished ==
  \/ caller = "markAsReadIfOlder" /\ pc = "done"
  \/ caller = "processReadingList" /\ pc = "delete_query"

\* deleteIfOlder has returned to its caller
DeleteFinished ==
  /\ caller \in {"deleteIfOlder", "processReadingList"}
  /\ pc = "done"

\* the value markAsReadIfOlder / deleteIfOlder returned
MarkResult == IF caller = "processReadingList" THEN readCount ELSE result
DeleteResult == IF caller = "processReadingList" THEN deleteCount ELSE result

\* the mutator of the function that has just returned
FinishedOp == IF MarkFinished THEN "updateEntry" ELSE "removeEntry"

CandidateUrls == { candidates[a].url : a \in 1..Len(candidates) }

(***************************************************************************)
(* C1: in one processReadingList run no entry receives both a mark-read    *)
(* request and a delete request.                                           *)
(***************************************************************************)
C1_NoEntryMarkedAndDeleted ==
  caller = "processReadingList" =>
    \A u \in 1..MaxEntries :
      ~(Calls("updateEntry", u) # {} /\ Calls("removeEntry", u) # {})

(***************************************************************************)
(* C2: processReadingList issues every delete request of a run before any  *)
(* mark-read request of that run.                                          *)
(***************************************************************************)
C2_DeletesBeforeMarkReads ==
  caller = "processReadingList" =>
    \A j, k \in 1..Len(log) :
      (log[j].op = "updateEntry" /\ log[k].op = "removeEntry") => k < j

\* once the function has returned, a candidate whose attempts all failed
\* did not keep the later candidates from being attempted
C3_LaterCandidatesAttempted ==
  ((MarkFinished \/ DeleteFinished) /\ maxRetries >= 1) =>
    \A a, b \in 1..Len(candidates) :
      (a < b /\ AllFailed(FinishedOp, candidates[a].url))
        => Attempts(FinishedOp, candidates[b].url) >= 1

\* a step that settles a mutator call never ends in the rejected state
C3_MutatorFailureDoesNotReject ==
  pc \in {"mark_call", "delete_call"} => pc' # "rejected"

(***************************************************************************)
(* C3: when every attempt for one candidate fails, markAsReadIfOlder and   *)
(* deleteIfOlder do not reject (no step that settles a mutator call ends   *)
(* in the rejected state) and, once the function has returned, every later *)
(* candidate has been attempted at least once (maxRetries >= 1).           *)
(***************************************************************************)
C3_FailureIsolated ==
  /\ []C3_LaterCandidatesAttempted
  /\ [][C3_MutatorFailureDoesNotReject]_vars

C3_Witness ==
  /\ MarkFinished \/ DeleteFinished
  /\ Len(candidates) >= 2
  /\ AllFailed(FinishedOp, candidates[1].url)
  /\ Attempts(FinishedOp, candidates[1].url) = maxRetries
  /\ Attempts(FinishedOp, candidates[2].url) >= 1

(***************************************************************************)
(* C4: processReadingList rejects only when reading the settings or        *)
(* querying the reading list fails: in the rejected state the last         *)
(* collaborator call is a failed storage read or a failed query, and a run *)
(* whose reads all succeeded is never rejected, however its mutator calls  *)
(* went.                                                                   *)
(***************************************************************************)
C4_RejectsOnlyOnSourceFailure ==
  (caller = "processReadingList" /\ pc = "rejected") =>
    /\ log # <<>>
    /\ log[Len(log)].op \in {"get", "query"}
    /\ ~log[Len(log)].ok
    /\ error \in {"StorageUnavailable", "SourceUnavailable"}

C4_Witness ==
  /\ caller = "processReadingList"
  /\ pc = "done"
  /\ \E k \in 1..Len(log) : log[k].op = "removeEntry" /\ ~log[k].ok
  /\ \E k \in 1..Len(log) : log[k].op = "updateEntry" /\ ~log[k].ok

(***************************************************************************)
(* C5: whenever a processReadingList run rejects, no mutation request was  *)
(* issued during that run.                                                 *)
(***************************************************************************)
C5_NoMutationBeforeReject ==
  (caller = "processReadingList" /\ pc = "rejected") =>
    \A k \in 1..Len(log) : log[k].op \notin Mutators

(***************************************************************************)
(* C6: for maxRetries >= 1 the mutator is called at most maxRetries times  *)
(* per entry (3 in processReadingList), never again after a call for the   *)
(* entry succeeded, at least once for every candidate of a returned        *)
(* function, and exactly maxRetries times when every call failed.          *)
(***************************************************************************)
C6_BoundedRetries ==
  maxRetries >= 1 =>
    \A op \in Mutators, u \in 1..MaxEntries :
      /\ Attempts(op, u) <= maxRetries
      /\ caller = "processReadingList" => Attempts(op, u) <= 3
      /\ \A k \in Calls(op, u) :
           log[k].ok => \A j \in Calls(op, u) : j <= k
      /\ ((MarkFinished \/ DeleteFinished) /\ op = FinishedOp
            /\ u \in CandidateUrls) =>
           /\ Attempts(op, u) >= 1
           /\ AllFailed(op, u) => Attempts(op, u) = maxRetries

C6_Witness ==
  /\ MarkFinished
  /\ maxRetries = 3
  /\ \E u \in CandidateUrls :
       AllFailed("updateEntry", u) /\ Attempts("updateEntry", u) = 3
  /\ \E u \in CandidateUrls :
       Succeeded("updateEntry", u) /\ Attempts("updateEntry", u) = 2

(***************************************************************************)
(* C7: a backoff timer is set exactly after the n-th failed attempt on an  *)
(* entry with n < maxRetries, its delay is 2^(n-1) seconds, the next       *)
(* request is the retry on the same entry, and the clock advances by       *)
(* exactly the delays of the timers that elapsed: no wait before a first   *)
(* attempt, after a success or after the final failure.                    *)
(***************************************************************************)
C7_ExponentialBackoff ==
  /\ \A k \in 1..Len(log) :
       /\ log[k].op = "setTimeout" =>
            /\ k > 1
            /\ log[k - 1].op \in Mutators
            /\ ~log[k - 1].ok
            /\ log[k - 1].url = log[k].url
            /\ LET n == FailuresUpTo(log[k - 1].op, log[k - 1].url, k - 1)
               IN  n < maxRetries /\ log[k].ms = 2 ^ (n - 1) * 1000
            /\ k < Len(log) =>
                 /\ log[k + 1].op = log[k - 1].op
                 /\ log[k + 1].url = log[k].url
       /\ (/\ log[k].op \in Mutators
           /\ ~log[k].ok
           /\ FailuresUpTo(log[k].op, log[k].url, k) < maxRetries) =>
            (k < Len(log) /\ log[k + 1].op = "setTimeout")
  /\ Waiting => /\ log # <<>>
                /\ log[Len(log)].op = "setTimeout"
                /\ waitTime = log[Len(log)].ms
  /\ clock = PlusMs(Clock0, SumOfWaits(Len(log))
                             - (IF Waiting THEN waitTime ELSE 0))

C7_Witness ==
  /\ pc = "done"
  /\ \E u \in CandidateUrls :
       /\ AllFailed("removeEntry", u)
       /\ Attempts("removeEntry", u) = 3
       /\ { log[k].ms : k \in Calls("setTimeout", u) } = {1000, 2000}
       /\ Cardinality(Calls("setTimeout", u)) = 2
  /\ clock = PlusMs(Clock0, 3000)

\* returned is the success count of the function whose mutator is op
ReturnsSuccessCount(op, returned) ==
  /\ returned = Cardinality({ a \in 1..Len(candidates) :
                                Succeeded(op, candidates[a].url) })
  /\ 0 <= returned
  /\ returned <= Len(candidates)
  /\ maxRetries >= 1 =>
       Len(candidates) - returned =
         Cardinality({ a \in 1..Len(candidates) :
                         AllFailed(op, candidates[a].url) })

(***************************************************************************)
(* C8: the value markAsReadIfOlder / deleteIfOlder returns is the number   *)
(* of candidates for which some attempt succeeded; it lies between 0 and   *)
(* the number of candidates, and for maxRetries >= 1 the candidates not    *)
(* counted are those whose every attempt failed.                           *)
(***************************************************************************)
C8_SuccessCount ==
  /\ MarkFinished => ReturnsSuccessCount("updateEntry", MarkResult)
  /\ DeleteFinished => ReturnsSuccessCount("removeEntry", DeleteResult)

C8_Witness ==
  /\ DeleteFinished
  /\ Len(candidates) = 2
  /\ DeleteResult = 1
  /\ \E u \in CandidateUrls : AllFailed("removeEntry", u)

Range(seq) == { seq[k] : k \in 1..Len(seq) }

(***************************************************************************)
(* C9: classifyEntries puts every entry whose daysSinceCreation is at      *)
(* least daysUntilDelete into toDelete and not into toMarkRead, read or    *)
(* unread, and no entry is in both result sequences.                       *)
(***************************************************************************)
C9_DeleteTakesPrecedence ==
  /\ \A k \in 1..Len(daysSince) :
       daysSince[k] >= settings.daysUntilDelete =>
         /\ list[k] \in Range(toDelete)
         /\ list[k] \notin Range(toMarkRead)
  /\ Range(toDelete) \cap Range(toMarkRead) = {}

C9_Witness ==
  /\ pc = "classified"
  /\ \E k \in 1..Len(list) :
       /\ ~list[k].hasBeenRead
       /\ daysSince[k] >= settings.daysUntilDelete
       /\ daysSince[k] >= settings.daysUntilRead
       /\ list[k] \in Range(toDelete)
  /\ \E k \in 1..Len(list) :
       /\ list[k].hasBeenRead
       /\ daysSince[k] >= settings.daysUntilDelete
       /\ list[k] \in Range(toDelete)

(***************************************************************************)
(* C10: classifyEntries puts every unread entry with                       *)
(* daysUntilRead <= daysSinceCreation < daysUntilDelete into toMarkRead.   *)
(***************************************************************************)
C10_UnreadInWindowMarked ==
  \A k \in 1..Len(daysSince) :
    (/\ ~list[k].hasBeenRead
     /\ settings.daysUntilRead <= daysSince[k]
     /\ daysSince[k] < settings.daysUntilDelete) =>
      list[k] \in Range(toMarkRead)

C10_Witness ==
  /\ pc = "classified"
  /\ \E k \in 1..Len(list) :
       /\ ~list[k].hasBeenRead
       /\ daysSince[k] = settings.daysUntilRead
       /\ daysSince[k] < settings.daysUntilDelete
       /\ list[k] \in Range(toMarkRead)

(***************************************************************************)
(* C11: an entry that is already read and less than daysUntilDelete days   *)
(* old is put into neither toMarkRead nor toDelete by classifyEntries, and *)
(* while it is that young it receives no mutation request in a             *)
(* processReadingList run; markAsReadIfOlder never sends a request for an  *)
(* entry that was already read when it was called.                         *)
(***************************************************************************)
C11_ReadYoungUntouched ==
  /\ \A k \in 1..Len(daysSince) :
       (list[k].hasBeenRead /\ daysSince[k] < settings.daysUntilDelete) =>
         /\ list[k] \notin Range(toMarkRead)
         /\ list[k] \notin Range(toDelete)
  /\ \A k \in 1..Len(list0) :
       list0[k].hasBeenRead =>
         /\ Calls("updateEntry", list0[k].url) = {}
         /\ (/\ caller = "processReadingList"
             /\ settings.daysUntilDelete # NoValue
             /\ calculateDaysSinceCreation(list0[k].creationTime, clock)
                  < settings.daysUntilDelete) =>
              Calls("removeEntry", list0[k].url) = {}

C11_Witness ==
  /\ caller = "processReadingList"
  /\ pc = "done"
  /\ \E k \in 1..Len(list0) :
       /\ list0[k].hasBeenRead
       /\ calculateDaysSinceCreation(list0[k].creationTime, clock)
            >= settings.daysUntilRead
       /\ calculateDaysSinceCreation(list0[k].creationTime, clock)
            < settings.daysUntilDelete
       /\ \A op \in Mutators : Calls(op, list0[k].url) = {}
  /\ \E k \in 1..Len(log) : log[k].op = "removeEntry"

\* the function has its snapshot and has filtered it
Filtered ==
  /\ caller \in {"markAsReadIfOlder", "deleteIfOlder"}
  /\ pc \notin {"idle", "mark_query", "delete_query", "rejected"}

\* now - creationTime of a snapshot entry, in the function's own now
AgeInSnapshot(k) == Minus(queriedAt, snapshot[k].creationTime)

ExactlyThreshold == [d |-> daysThreshold, ms |-> 0]

OneMsLess == [d |-> daysThreshold - 1, ms |-> 86400000 - 1]

\* the mutator of the function that was called
CalledOp == IF caller = "deleteIfOlder" THEN "removeEntry" ELSE "updateEntry"

\* could be selected at all: deleteIfOlder does not look at hasBeenRead
Eligible(k) == caller = "deleteIfOlder" \/ ~snapshot[k].hasBeenRead

(***************************************************************************)
(* C12: in markAsReadIfOlder an unread entry whose age is exactly          *)
(* daysThreshold * 86,400,000 ms is selected, and one whose age is one     *)
(* millisecond less is not; deleteIfOlder has the same boundary for every  *)
(* entry.  Selected means: among the candidates and, once the function has *)
(* returned (maxRetries >= 1), a request was sent for it.                  *)
(***************************************************************************)
C12_InclusiveBoundary ==
  Filtered =>
    \A k \in 1..Len(snapshot) :
      /\ (Eligible(k) /\ AgeInSnapshot(k) = ExactlyThreshold) =>
           /\ snapshot[k] \in Range(candidates)
           /\ (pc = "done" /\ maxRetries >= 1) =>
                Calls(CalledOp, snapshot[k].url) # {}
      /\ AgeInSnapshot(k) = OneMsLess =>
           /\ snapshot[k] \notin Range(candidates)
           /\ Calls(CalledOp, snapshot[k].url) = {}

C12_Witness ==
  /\ caller = "markAsReadIfOlder"
  /\ pc = "done"
  /\ Len(snapshot) = 2
  /\ \E k \in 1..2 :
       /\ ~snapshot[k].hasBeenRead
       /\ AgeInSnapshot(k) = ExactlyThreshold
       /\ Succeeded("updateEntry", snapshot[k].url)
  /\ \E k \in 1..2 :
       /\ ~snapshot[k].hasBeenRead
       /\ AgeInSnapshot(k) = OneMsLess
       /\ Calls("updateEntry", snapshot[k].url) = {}

\* created exactly days days before the Date.now() of the call
CreatedDaysBefore(entry, days) ==
  entry.creationTime = Minus(queriedAt, [d |-> days, ms |-> 0])

(***************************************************************************)
(* C13: when markEntriesAsRead(30) has returned, a mark-read request was   *)
(* sent for every unread snapshot entry created exactly 30 days before the *)
(* call; when deleteOldEntries(60) has returned, a delete request was sent *)
(* for every snapshot entry created exactly 60 days before the call.       *)
(***************************************************************************)
C13_ExactAgeSelected ==
  pc = "done" =>
    \A k \in 1..Len(snapshot) :
      /\ (/\ caller = "markEntriesAsRead"
          /\ daysThreshold = 30
          /\ ~snapshot[k].hasBeenRead
          /\ CreatedDaysBefore(snapshot[k], 30)) =>
           Calls("updateEntry", snapshot[k].url) # {}
      /\ (/\ caller = "deleteOldEntries"
          /\ daysThreshold = 60
          /\ CreatedDaysBefore(snapshot[k], 60)) =>
           Calls("removeEntry", snapshot[k].url) # {}

\* markAsReadIfOlder has its snapshot and has not handed over to
\* deleteIfOlder yet
InMark ==
  \/ pc \in {"mark_call", "mark_wait"}
  \/ MarkFinished

\* deleteIfOlder has its snapshot
InDelete ==
  \/ pc \in {"delete_call", "delete_wait"}
  \/ DeleteFinished

\* the argument markAsReadIfOlder was called with
MarkDays ==
  IF caller = "processReadingList" THEN settings.daysUntilRead
  ELSE daysThreshold

\* whole days between creationTime and the function's now
DaysOld(k) == AgeInSnapshot(k).d

\* urls of the snapshot entries that are unread and at least days days old
UnreadAtLeast(days) ==
  { snapshot[k].url : k \in { j \in 1..Len(snapshot) :
                                ~snapshot[j].hasBeenRead /\ DaysOld(j) >= days } }

\* urls of the snapshot entries that are at least days days old
AtLeast(days) ==
  { snapshot[k].url : k \in { j \in 1..Len(snapshot) : DaysOld(j) >= days } }

\* urls for which op was requested
Requested(op) == { u \in 1..MaxEntries : Calls(op, u) # {} }

(***************************************************************************)
(* C14: markAsReadIfOlder(d) sends mark-read requests only for snapshot    *)
(* entries that are unread and at least d days old, and when it has        *)
(* returned it has sent one for every such entry, those past the delete    *)
(* threshold included (maxRetries >= 1; the default is 3).                 *)
(***************************************************************************)
C14_MarkRequestsExact ==
  InMark =>
    /\ Requested("updateEntry") \subseteq UnreadAtLeast(MarkDays)
    /\ (MarkFinished /\ maxRetries >= 1) =>
         Requested("updateEntry") = UnreadAtLeast(MarkDays)

C14_Witness ==
  /\ caller = "processReadingList"
  /\ MarkFinished
  /\ Len(snapshot) = 2
  /\ \E k \in 1..2 :
       /\ ~snapshot[k].hasBeenRead
       /\ DaysOld(k) >= settings.daysUntilDelete
       /\ Calls("updateEntry", snapshot[k].url) # {}
  /\ \E k \in 1..2 :
       /\ DaysOld(k) >= MarkDays
       /\ snapshot[k].hasBeenRead
       /\ Calls("updateEntry", snapshot[k].url) = {}

(***************************************************************************)
(* C15: deleteIfOlder(d) sends delete requests only for snapshot entries   *)
(* that are at least d days old, and when it has returned it has sent one  *)
(* for every such entry, read or unread (maxRetries >= 1).                 *)
(***************************************************************************)
C15_DeleteRequestsExact ==
  InDelete =>
    /\ Requested("removeEntry") \subseteq AtLeast(daysThreshold)
    /\ (DeleteFinished /\ maxRetries >= 1) =>
         Requested("removeEntry") = AtLeast(daysThreshold)

C15_Witness ==
  /\ caller = "deleteIfOlder"
  /\ DeleteFinished
  /\ Len(snapshot) = 2
  /\ \E k \in 1..2 :
       /\ snapshot[k].hasBeenRead
       /\ DaysOld(k) >= daysThreshold
       /\ Calls("removeEntry", snapshot[k].url) # {}
  /\ \E k \in 1..2 :
       /\ DaysOld(k) < daysThreshold
       /\ Calls("removeEntry", snapshot[k].url) = {}

\* getSettings has resolved in this run
SettingsRead == \E k \in 1..Len(log) : log[k].op = "get" /\ log[k].ok

(***************************************************************************)
(* C16: the settings processReadingList works with are the stored          *)
(* daysUntilRead, or 30 when the store has none, and the stored            *)
(* daysUntilDelete, or 60 when the store has none, each key on its own.    *)
(***************************************************************************)
C16_DefaultsPerKey ==
  SettingsRead =>
    /\ settings.daysUntilRead =
         (IF "daysUntilRead" \in DOMAIN storage
          THEN storage["daysUntilRead"] ELSE 30)
    /\ settings.daysUntilDelete =
         (IF "daysUntilDelete" \in DOMAIN storage
          THEN storage["daysUntilDelete"] ELSE 60)

C16_Witness ==
  /\ SettingsRead
  /\ DOMAIN storage = {"daysUntilDelete"}
  /\ settings.daysUntilRead = 30
  /\ settings.daysUntilDelete = storage["daysUntilDelete"]
  /\ settings.daysUntilDelete # 60

(***************************************************************************)
(* C17: when reading the settings fails, processReadingList rejects with   *)
(* that error and the failed read is the only collaborator call of the     *)
(* run: no second read, no query of the reading list, no mutation request. *)
(***************************************************************************)
C17_SettingsFailureRejects ==
  (\E k \in 1..Len(log) : log[k].op = "get" /\ ~log[k].ok) =>
    /\ pc = "rejected"
    /\ error = "StorageUnavailable"
    /\ log = <<Event("get", 0, FALSE, 0)>>
    /\ list = list0

C17_Witness ==
  /\ caller = "processReadingList"
  /\ pc = "rejected"
  /\ error = "StorageUnavailable"
  /\ \E k \in 1..Len(list0) :
       /\ ~list0[k].hasBeenRead
       /\ calculateDaysSinceCreation(list0[k].creationTime, clock) >= 60

(***************************************************************************)
(* C18: when the reading list is empty, a run sends no mutation request    *)
(* and sets no backoff timer, it rejects only when a read failed, and it   *)
(* completes with both counts 0 (markAsReadIfOlder and deleteIfOlder       *)
(* called directly return 0).                                              *)
(***************************************************************************)
C18_EmptySnapshot ==
  list0 = <<>> =>
    /\ snapshot = <<>>
    /\ \A k \in 1..Len(log) : log[k].op \in {"get", "query"}
    /\ ~Waiting
    /\ clock = Clock0
    /\ pc = "rejected" => ~log[Len(log)].ok
    /\ (pc = "done" /\ caller = "processReadingList") =>
         (readCount = 0 /\ deleteCount = 0)
    /\ (pc = "done" /\ caller # "processReadingList") => result = 0

C18_Witness ==
  /\ list0 = <<>>
  /\ caller = "processReadingList"
  /\ pc = "done"
  /\ readCount = 0
  /\ deleteCount = 0
  /\ Len(log) = 3

(***************************************************************************)
(* C19: at most one mutation request is in flight at any time, and it is   *)
(* the request the function is waiting for; none is in flight while a      *)
(* backoff timer is pending, while a read is pending or after the function *)
(* has returned.                                                           *)
(***************************************************************************)
C19_OneRequestInFlight ==
  /\ Cardinality(inflight) <= 1
  /\ pc = "mark_call" =>
       inflight = {Request("updateEntry", candidates[i].url, retryCount)}
  /\ pc = "delete_call" =>
       inflight = {Request("removeEntry", candidates[i].url, retryCount)}
  /\ pc \notin {"mark_call", "delete_call"} => inflight = {}

C19_Witness ==
  /\ pc = "mark_call"
  /\ i = 2
  /\ retryCount = 1
  /\ AllFailed("updateEntry", candidates[1].url)
  /\ inflight = {Request("updateEntry", candidates[2].url, 1)}

(***************************************************************************)
(* C20: provided every pending collaborator call and backoff timer settles *)
(* eventually, every processReadingList run that was started eventually    *)
(* completes or rejects, whatever the reading list holds and whichever     *)
(* mutator calls fail.                                                     *)
(***************************************************************************)
C20_RunTerminates ==
  (caller = "processReadingList") ~> (pc \in {"done", "rejected"})

C20_Witness ==
  /\ caller = "processReadingList"
  /\ pc = "done"
  /\ Len(list0) = 2
  /\ \A u \in 1..2 :
       /\ AllFailed("updateEntry", u)
       /\ Attempts("updateEntry", u) = 3
       /\ AllFailed("removeEntry", u)
       /\ Attempts("removeEntry", u) = 3

\* number of mutator calls that were made after a backoff timer elapsed
DelayedAttempts ==
  Cardinality({ k \in 2..Len(log) :
                  log[k].op \in Mutators /\ log[k - 1].op = "setTimeout" })

(***************************************************************************)
(* C21: in one processReadingList run the number of attempts that follow a *)
(* backoff delay is at most maxRetries (3) times the number of entries of  *)
(* the snapshot.                                                           *)
(***************************************************************************)
C21_DelayedAttemptsBounded ==
  caller = "processReadingList" =>
    DelayedAttempts <= DefaultMaxRetries * Len(list0)

\* number of times the reading list was queried
Queries == Cardinality({ k \in 1..Len(log) : log[k].op = "query" })

(***************************************************************************)
(* C27: a processReadingList run queries the reading list exactly once:    *)
(* never more than once, and once when it has completed.                   *)
(***************************************************************************)
C27_SingleSnapshot ==
  caller = "processReadingList" =>
    /\ Queries <= 1
    /\ pc = "done" => Queries = 1

(***************************************************************************)
(* C30: within one classifyEntries call two entries with equal             *)
(* creationTime and equal hasBeenRead get the same daysSinceCreation and   *)
(* are classified the same way.                                            *)
(***************************************************************************)
C30_SameInstant ==
  \A j, k \in 1..Len(daysSince) :
    (/\ list[j].creationTime = list[k].creationTime
     /\ list[j].hasBeenRead = list[k].hasBeenRead) =>
      /\ daysSince[j] = daysSince[k]
      /\ list[j] \in Range(toMarkRead) <=> list[k] \in Range(toMarkRead)
      /\ list[j] \in Range(toDelete) <=> list[k] \in Range(toDelete)

\* sub is a subsequence of seq: its elements are elements of seq, in the
\* order they have in seq
IsSubsequence(sub, seq) ==
  \E f \in [1..Len(sub) -> 1..Len(seq)] :
    /\ \A a \in 1..Len(sub) : sub[a] = seq[f[a]]
    /\ \A a, b \in 1..Len(sub) : a < b => f[a] < f[b]

\* position of the entry with this url in the snapshot
PositionOf(url) == CHOOSE k \in 1..Len(snapshot) : snapshot[k].url = url

\* position in the log of the first request of op for url
FirstCall(op, url) ==
  CHOOSE k \in Calls(op, url) : \A j \in Calls(op, url) : k <= j

(***************************************************************************)
(* C25: toMarkRead and toDelete of classifyEntries are subsequences of the *)
(* entries they were classified from, and within the mark-read pass and    *)
(* within the delete pass of background.ts the first requests for the      *)
(* entries are issued in the order the entries have in the snapshot.       *)
(***************************************************************************)
C25_SnapshotOrderKept ==
  /\ IsSubsequence(toMarkRead, list)
  /\ IsSubsequence(toDelete, list)
  /\ IsSubsequence(candidates, snapshot)
  /\ (InMark \/ InDelete) =>
       \A u, v \in Requested(IF InDelete THEN "removeEntry" ELSE "updateEntry") :
         LET op == IF InDelete THEN "removeEntry" ELSE "updateEntry"
         IN  PositionOf(u) < PositionOf(v) =>
               FirstCall(op, u) < FirstCall(op, v)

C25_Witness ==
  /\ pc = "classified"
  /\ Len(list) = 2
  /\ toMarkRead = list
  /\ toDelete = <<>>

\* what chrome.readingList.query resolved with in the pass that is running:
\* the list of the invocation's start, with the entries the mark-read pass
\* of this run has updated
Queried ==
  IF caller = "processReadingList" /\ InDelete
  THEN [k \in 1..Len(list0) |->
          IF Succeeded("updateEntry", list0[k].url)
          THEN [list0[k] EXCEPT !.hasBeenRead = TRUE] ELSE list0[k]]
  ELSE list0

(***************************************************************************)
(* C28: the entries markAsReadIfOlder and deleteIfOlder get from           *)
(* getReadingListEntries are the entries the query resolved with, in the   *)
(* same order, also when there are none; when the query rejects,           *)
(* getReadingListEntries rejects with the error of the query.              *)
(***************************************************************************)
C28_EntriesAsQueried ==
  /\ (InMark \/ InDelete) => snapshot = Queried
  /\ (log # <<>> /\ log[Len(log)].op = "query" /\ ~log[Len(log)].ok) =>
       /\ pc = "rejected"
       /\ error = "SourceUnavailable"

C28_Witness ==
  /\ caller = "markAsReadIfOlder"
  /\ pc = "done"
  /\ Len(snapshot) = 2
  /\ snapshot = list0
  /\ snapshot[1].hasBeenRead
  /\ ~snapshot[2].hasBeenRead

C29_ExecutorFailureIsolated ==
  caller = "processReadingListEntries" =>
    /\ pc = "rejected" => log[Len(log)].op \notin Mutators
    /\ pc \in {"done", "rejected"} =>
         /\ \A k \in 1..Len(toDelete) :
              Calls("removeEntry", toDelete[k].url) # {}
         /\ \A k \in 1..Len(toMarkRead) :
              Calls("updateEntry", toMarkRead[k].url) # {}

(***************************************************************************)
(* C24: for a message with action processReadingList the onMessage         *)
(* listener returns true and sendResponse is called exactly once, when the *)
(* run has settled: with success = true when the run completed, whatever   *)
(* its mutator calls did, and with success = false and the message of the  *)
(* error when the run rejected.  For any other message the listener        *)
(* returns undefined, sends no response and starts no run.                 *)
(***************************************************************************)
C24_MessageResponse ==
  caller = "onMessage" =>
    /\ pc = "ignored" =>
         (listenerResult = "undefined" /\ responses = <<>> /\ log = <<>>)
    /\ pc # "ignored" => listenerResult = "true"
    /\ pc = "done" => responses = <<Response(TRUE, "completed")>>
    /\ pc = "rejected" =>
         /\ responses = <<Response(FALSE, error)>>
         /\ error \in {"StorageUnavailable", "SourceUnavailable"}
    /\ pc \notin {"done", "rejected"} => responses = <<>>

C24_Witness ==
  /\ caller = "onMessage"
  /\ pc = "done"
  /\ responses = <<Response(TRUE, "completed")>>
  /\ \E k \in 1..Len(log) : log[k].op = "updateEntry" /\ ~log[k].ok
  /\ \E k \in 1..Len(log) : log[k].op = "removeEntry" /\ log[k].ok

\* the runs that have been started and have not settled
ActiveRuns == { t \in DOMAIN runs : runs[t].pc # "settled" }

\* the runs that are inside one of their two passes
RunsInPass ==
  { t \in DOMAIN runs :
      runs[t].pc \in {"mark_call", "mark_wait", "delete_call", "delete_wait"} }

(***************************************************************************)
(* C22: at most one of the runs started by the onStartup and onInstalled   *)
(* listeners is active at any time, and no two runs are inside their       *)
(* mutation passes at the same time.                                       *)
(***************************************************************************)
C22_OneRunAtATime ==
  /\ Cardinality(ActiveRuns) <= 1
  /\ Cardinality(RunsInPass) <= 1

(***************************************************************************)
(* C23: a listener that has fired has started one processReadingList run,  *)
(* and its promise is never rejected: when the run fails, the error is     *)
(* caught in the listener, which then settles normally.                    *)
(***************************************************************************)
C23_ListenerCatches ==
  \A t \in DOMAIN runs :
    /\ runs[t].promise # "rejected"
    /\ runs[t].failed => (runs[t].pc = "settled"
                          /\ runs[t].promise = "fulfilled")
    /\ runs[t].pc = "settled" <=> runs[t].promise = "fulfilled"

C23_Witness ==
  /\ DOMAIN runs = Triggers
  /\ runs["onStartup"].failed
  /\ runs["onStartup"].promise = "fulfilled"
  /\ ~runs["onInstalled"].failed
  /\ runs["onInstalled"].promise = "fulfilled"

(***************************************************************************)
(* The age test of background.ts (milliseconds against days * MsPerDay)    *)
(* next to the age test of classifyEntries (whole days against days), on   *)
(* the same entries, the same now and the same threshold.  Entries may     *)
(* have been created after now, and the threshold may be zero or negative. *)
(***************************************************************************)
\* now - creationTime of the entries that are compared
CompareAges ==
  { Time(0 - 1, 0 - 1), Time(0 - 1, 0), Time(0, 0 - 1), Time(0, 0),
    Time(0, 1), Time(1, 0 - 1), Time(1, 0) }

\* thresholds that are compared
CompareDays == { 0 - 1, 0, 1 }

CompareLists ==
  UNION { { [k \in 1..n |-> [url |-> k, hasBeenRead |-> f[k][1],
                              creationTime |-> Minus(Clock0, f[k][2])]]
            : f \in [1..n -> BOOLEAN \X CompareAges] }
          : n \in 0..MaxEntries }

\* daysSinceCreation >= settings.daysUntilDelete
DaysReached(entry, now, days) ==
  calculateDaysSinceCreation(entry.creationTime, now) >= days

InitCompare ==
  /\ list \in CompareLists
  /\ Idle

\* the entries markAsReadIfOlder selects, and the unread entries whose
\* daysSinceCreation has reached the threshold
CompareMarkAsRead ==
  /\ pc = "idle"
  /\ \E days \in CompareDays :
       /\ daysThreshold' = days
       /\ candidates' = entriesToMarkAsRead(list, clock, days)
       /\ toMarkRead' = SelectSeq(list, LAMBDA entry :
                          DaysReached(entry, clock, days)
                          /\ ~entry.hasBeenRead)
  /\ caller' = "markAsReadIfOlder"
  /\ pc' = "compared"
  /\ UNCHANGED <<list, storage, clock, settings, maxRetries, i, retryCount,
                 successCount, waitTime, readCount, deleteCount, result,
                 error, log, snapshot, queriedAt, inflight, list0, toDelete,
                 daysSince, previous, listenerVars, optionsVars>>

\* the entries deleteIfOlder selects, and the entries whose
\* daysSinceCreation has reached the threshold
CompareDelete ==
  /\ pc = "idle"
  /\ \E days \in CompareDays :
       /\ daysThreshold' = days
       /\ candidates' = entriesToDelete(list, clock, days)
       /\ toDelete' = SelectSeq(list, LAMBDA entry :
                        DaysReached(entry, clock, days))
  /\ caller' = "deleteIfOlder"
  /\ pc' = "compared"
  /\ UNCHANGED <<list, storage, clock, settings, maxRetries, i, retryCount,
                 successCount, waitTime, readCount, deleteCount, result,
                 error, log, snapshot, queriedAt, inflight, list0,
                 toMarkRead, daysSince, previous, listenerVars, optionsVars>>

NextCompare ==
  \/ CompareMarkAsRead
  \/ CompareDelete

SpecCompare == InitCompare /\ [][NextCompare]_vars

(***************************************************************************)
(* C31: for whole-day thresholds the millisecond comparison of             *)
(* markAsReadIfOlder / deleteIfOlder selects exactly the entries the       *)
(* comparison of floor(age / MsPerDay) with the threshold selects, also    *)
(* for entries created after now and for thresholds of zero or less.       *)
(***************************************************************************)
C31_SameSelection ==
  pc = "compared" =>
    /\ caller = "markAsReadIfOlder" => candidates = toMarkRead
    /\ caller = "deleteIfOlder" => candidates = toDelete

C31_Witness ==
  /\ pc = "compared"
  /\ caller = "deleteIfOlder"
  /\ daysThreshold = 0
  /\ Len(list) = 2
  /\ Minus(clock, list[1].creationTime) = Time(0, 0 - 1)
  /\ Minus(clock, list[2].creationTime) = Time(0, 0)
  /\ candidates = <<list[2]>>

(***************************************************************************)
(* C32: with daysUntilDelete <= daysUntilRead classifyEntries puts no      *)
(* entry into toMarkRead, and every entry it has looked at whose age has   *)
(* reached daysUntilRead is in toDelete.                                   *)
(***************************************************************************)
C32_DeleteWinsWhenNotLater ==
  (/\ caller = "classifyEntries"
   /\ settings.daysUntilDelete <= settings.daysUntilRead)
  => /\ toMarkRead = <<>>
     /\ \A k \in 1..Len(daysSince) :
          daysSince[k] >= settings.daysUntilRead
          => \E j \in 1..Len(toDelete) : toDelete[j] = list[k]

C32_Witness ==
  /\ caller = "classifyEntries"
  /\ pc = "classified"
  /\ settings.daysUntilDelete < settings.daysUntilRead
  /\ Len(list) = 2
  /\ ~list[1].hasBeenRead
  /\ daysSince = <<65, 30>>
  /\ toDelete = list
  /\ toMarkRead = <<>>

(***************************************************************************)
(* processReadingList of background.ts called a second time, right after   *)
(* a run that completed.  The second run starts with fresh locals; the     *)
(* reading list, the settings store and the clock are what the first run   *)
(* left.  previous keeps what the first run did.                           *)
(***************************************************************************)
CallProcessReadingListAgain ==
  /\ pc = "done"
  /\ caller = "processReadingList"
  /\ previous = <<>>
  /\ previous' = <<[log |-> log, settings |-> settings, now |-> queriedAt]>>
  /\ pc' = "getSettings"
  /\ settings' = [daysUntilRead |-> NoValue, daysUntilDelete |-> NoValue]
  /\ daysThreshold' = NoValue
  /\ maxRetries' = NoValue
  /\ candidates' = <<>>
  /\ i' = 0
  /\ retryCount' = 0
  /\ successCount' = 0
  /\ waitTime' = 0
  /\ readCount' = NoValue
  /\ deleteCount' = NoValue
  /\ log' = <<>>
  /\ snapshot' = <<>>
  /\ queriedAt' = clock
  /\ inflight' = {}
  /\ list0' = list
  /\ UNCHANGED <<list, storage, clock, caller, result, error, toMarkRead,
                 toDelete, daysSince, listenerVars, optionsVars>>

NextRerun ==
  \/ Next
  \/ CallProcessReadingListAgain

SpecRerun == Init /\ [][NextRerun]_vars

\* every updateEntry / removeEntry request of the history resolved
AllMutationsSucceeded(history) ==
  \A k \in 1..Len(history) : history[k].op \in Mutators => history[k].ok

\* the updateEntry / removeEntry requests of the history
MutationRequests(history) ==
  { k \in 1..Len(history) : history[k].op \in Mutators }

(***************************************************************************)
(* C33: when every updateEntry / removeEntry request of a completed        *)
(* processReadingList run resolved, a run that follows at once, reads the  *)
(* same settings and sees the same Date.now() issues no updateEntry and no *)
(* removeEntry request.                                                    *)
(***************************************************************************)
C33_SecondRunIdle ==
  (/\ caller = "processReadingList"
   /\ previous # <<>>
   /\ AllMutationsSucceeded(previous[1].log)
   /\ settings = previous[1].settings
   /\ clock = previous[1].now)
  => /\ MutationRequests(log) = {}
     /\ inflight = {}
     /\ pc \notin {"mark_call", "mark_wait", "delete_call", "delete_wait"}

C33_Witness ==
  /\ caller = "processReadingList"
  /\ previous # <<>>
  /\ pc = "done"
  /\ settings = previous[1].settings
  /\ clock = previous[1].now
  /\ \E k \in 1..Len(previous[1].log) :
       previous[1].log[k].op = "updateEntry" /\ previous[1].log[k].ok
  /\ \E k \in 1..Len(previous[1].log) :
       previous[1].log[k].op = "removeEntry" /\ previous[1].log[k].ok
  /\ AllMutationsSucceeded(previous[1].log)
  /\ list # <<>>
  /\ MutationRequests(log) = {}

\* now - creationTime of an entry, in the now of the pass that ran last
AgeAtSelection(entry) == Minus(queriedAt, entry.creationTime)

(***************************************************************************)
(* C34: when processReadingList has completed and every updateEntry and    *)
(* removeEntry request of the run resolved, the reading list holds no      *)
(* entry that was at least daysUntilDelete days old and no unread entry    *)
(* that was at least daysUntilRead days old when the candidates were       *)
(* selected (no request failed, so no backoff wait moved the clock between *)
(* the two selections).                                                    *)
(***************************************************************************)
C34_NothingStaleLeft ==
  (/\ caller = "processReadingList"
   /\ pc = "done"
   /\ AllMutationsSucceeded(log))
  => \A k \in 1..Len(list) :
       /\ Less(AgeAtSelection(list[k]), DaysToMs(settings.daysUntilDelete))
       /\ ~list[k].hasBeenRead =>
            Less(AgeAtSelection(list[k]), DaysToMs(settings.daysUntilRead))

C34_Witness ==
  /\ caller = "processReadingList"
  /\ pc = "done"
  /\ previous = <<>>
  /\ AllMutationsSucceeded(log)
  /\ \E k \in 1..Len(log) : log[k].op = "updateEntry"
  /\ \E k \in 1..Len(log) : log[k].op = "removeEntry"
  /\ Len(list0) = 2
  /\ Len(list) = 1
  /\ list[1].hasBeenRead
  /\ ~list0[1].hasBeenRead

\* the argument deleteIfOlder was called with
DeleteDays ==
  IF caller = "processReadingList" THEN settings.daysUntilDelete
  ELSE daysThreshold

\* the urls of a sequence of entries
Urls(entries) == { entries[k].url : k \in 1..Len(entries) }

(***************************************************************************)
(* C35: an entry for which an updateEntry request resolved has             *)
(* hasBeenRead = true as long as it is in the list (the request never      *)
(* carries false); updateEntry is requested only for urls of the snapshot  *)
(* of markAsReadIfOlder and removeEntry only for urls of the snapshot of   *)
(* deleteIfOlder; and an entry younger than the threshold of a pass, in    *)
(* the now of that pass, gets no request from it, so an entry younger than *)
(* both thresholds gets none at all.                                       *)
(***************************************************************************)
C35_OnlyMarkReadOnlySnapshot ==
  caller \in {"markAsReadIfOlder", "deleteIfOlder", "processReadingList"} =>
    /\ \A k \in 1..Len(list) :
         Succeeded("updateEntry", list[k].url) => list[k].hasBeenRead
    /\ Requested("updateEntry") \subseteq Urls(list0)
    /\ Requested("removeEntry") # {} =>
         (InDelete /\ Requested("removeEntry") \subseteq Urls(snapshot))
    /\ \A k \in 1..Len(list0) :
         Less(Minus(Clock0, list0[k].creationTime), DaysToMs(MarkDays))
         => Calls("updateEntry", list0[k].url) = {}
    /\ InDelete =>
         \A k \in 1..Len(snapshot) :
           Less(AgeInSnapshot(k), DaysToMs(DeleteDays))
           => Calls("removeEntry", snapshot[k].url) = {}

C35_Witness ==
  /\ caller = "processReadingList"
  /\ pc = "done"
  /\ settings = [daysUntilRead |-> 30, daysUntilDelete |-> 60]
  /\ Len(list0) = 2
  /\ ~list0[1].hasBeenRead
  /\ ~list0[2].hasBeenRead
  /\ Minus(Clock0, list0[1].creationTime) = Time(1, 0)
  /\ Minus(Clock0, list0[2].creationTime) = Time(30, 0)
  /\ list = <<list0[1], [list0[2] EXCEPT !.hasBeenRead = TRUE]>>
  /\ Requested("updateEntry") = {2}
  /\ Requested("removeEntry") = {}

(***************************************************************************)
(* C36: markAsReadIfOlder and deleteIfOlder called with maxRetries <= 0    *)
(* send no updateEntry / removeEntry request for any candidate, never wait *)
(* for a backoff timer, and return 0.                                      *)
(***************************************************************************)
C36_NoAttemptWithoutRetries ==
  (/\ caller \in {"markAsReadIfOlder", "deleteIfOlder"}
   /\ maxRetries <= 0)
  => /\ MutationRequests(log) = {}
     /\ inflight = {}
     /\ pc \notin {"mark_call", "mark_wait", "delete_call", "delete_wait"}
     /\ clock = Clock0
     /\ list = list0
     /\ pc = "done" => result = 0

C36_Witness ==
  /\ caller = "deleteIfOlder"
  /\ maxRetries < 0
  /\ pc = "done"
  /\ Len(candidates) = 2
  /\ result = 0

(***************************************************************************)
(* options.tsx: OptionsPage.  settings is the component state, storage is  *)
(* chrome.storage.local, inflight holds the chrome.storage.local calls     *)
(* that have not settled.  A number is the record [isNaN, value]; the      *)
(* store holds what the page wrote earlier, or nothing.                    *)
(***************************************************************************)
MaxTimers == 2

Num(n) == [isNaN |-> FALSE, value |-> n]

NaN == [isNaN |-> TRUE, value |-> 0]

\* texts of the number inputs when onChange fires
InputTexts == {"", "0", "12.7", "400"}

\* Number.parseInt(text, 10)
parseInt(text) ==
  CASE text = "" -> NaN
    [] text = "0" -> Num(0)
    [] text = "12.7" -> Num(12)
    [] text = "400" -> Num(400)

\* Math.min(a, b)
MathMin(a, b) ==
  IF a.isNaN \/ b.isNaN THEN NaN
  ELSE IF a.value <= b.value THEN a ELSE b

\* Math.max(a, b)
MathMax(a, b) ==
  IF a.isNaN \/ b.isNaN THEN NaN
  ELSE IF a.value >= b.value THEN a ELSE b

\* Number.isNaN(settings.daysUntilRead) || Number.isNaN(settings.daysUntilDelete)
HasNaN(s) == s.daysUntilRead.isNaN \/ s.daysUntilDelete.isNaN

\* what the page finds in the store when it is opened
OptionsStorages == UNION { [K -> {Num(45)}] : K \in SUBSET SettingKeys }

\* the other variables do not belong to the page
pageFrame == <<list, clock, pc, caller, daysThreshold, maxRetries, candidates,
               i, retryCount, successCount, waitTime, readCount, deleteCount,
               result, error, log, snapshot, queriedAt, list0, classifyVars,
               listenerVars>>

\* the component is mounted: the useState initial values, and the effect
\* has called loadSettings
InitOptions ==
  /\ list = <<>>
  /\ storage \in OptionsStorages
  /\ clock = Clock0
  /\ pc = "mounted"
  /\ caller = "OptionsPage"
  /\ settings = [daysUntilRead |-> Num(30), daysUntilDelete |-> Num(60)]
  /\ isSaving = FALSE
  /\ saveMessage = NoMessage
  /\ messageTimers = 0
  /\ inflight = {[op |-> "get"]}
  /\ daysThreshold = NoValue
  /\ maxRetries = NoValue
  /\ candidates = <<>>
  /\ i = 0
  /\ retryCount = 0
  /\ successCount = 0
  /\ waitTime = 0
  /\ readCount = NoValue
  /\ deleteCount = NoValue
  /\ result = NoValue
  /\ error = "none"
  /\ log = <<>>
  /\ snapshot = <<>>
  /\ queriedAt = Clock0
  /\ list0 = list
  /\ toMarkRead = <<>>
  /\ toDelete = <<>>
  /\ daysSince = <<>>
  /\ previous = <<>>
  /\ runs = << >>
  /\ listenerResult = "none"
  /\ responses = <<>>

\* loadSettings: chrome.storage.local.get resolves, setSettings
LoadSettingsOk ==
  /\ [op |-> "get"] \in inflight
  /\ LET loaded == storage
     IN  settings' =
           [daysUntilRead |-> Coalesce(loaded, "daysUntilRead", Num(30)),
            daysUntilDelete |-> Coalesce(loaded, "daysUntilDelete", Num(60))]
  /\ inflight' = inflight \ {[op |-> "get"]}
  /\ UNCHANGED <<storage, optionsVars, pageFrame>>

\* loadSettings: chrome.storage.local.get rejects, console.error
LoadSettingsFail ==
  /\ [op |-> "get"] \in inflight
  /\ inflight' = inflight \ {[op |-> "get"]}
  /\ UNCHANGED <<storage, settings, optionsVars, pageFrame>>

\* faulty variant of Clamp: the parsed value is stored as it is
Clamp_Unlimited(value) == value

\* Math.max(1, Math.min(365, value))
Clamp(value) == MathMax(Num(1), MathMin(Num(365), value))

\* onChange of one of the two inputs: handleChangeSettings(key, parseInt(...))
HandleChangeSettings ==
  /\ \E key \in SettingKeys, text \in InputTexts :
       settings' = [settings EXCEPT ![key] = Clamp(parseInt(text))]
  /\ UNCHANGED <<storage, inflight, optionsVars, pageFrame>>

\* faulty variant of SaveSettings: no NaN check before the write
SaveSettings_Unchecked ==
  /\ ~isSaving
  /\ messageTimers < MaxTimers
  /\ isSaving' = TRUE
  /\ inflight' = inflight \cup {[op |-> "set", items |-> settings]}
  /\ UNCHANGED <<saveMessage, messageTimers>>
  /\ UNCHANGED <<storage, settings, pageFrame>>

\* click on the save button (disabled while isSaving): saveSettings up to
\* its await
SaveSettings ==
  /\ ~isSaving
  /\ messageTimers < MaxTimers
  /\ IF HasNaN(settings)
     THEN /\ saveMessage' = SaveMessage("invalid", "error")
          /\ messageTimers' = messageTimers + 1
          /\ UNCHANGED <<isSaving, inflight>>
     ELSE /\ isSaving' = TRUE
          /\ inflight' = inflight \cup {[op |-> "set", items |-> settings]}
          /\ UNCHANGED <<saveMessage, messageTimers>>
  /\ UNCHANGED <<storage, settings, pageFrame>>

\* saveSettings: chrome.storage.local.set resolves
SaveSettingsOk ==
  /\ \E request \in inflight :
       /\ request.op = "set"
       /\ storage' = [key \in SettingKeys |-> request.items[key]]
       /\ inflight' = inflight \ {request}
  /\ saveMessage' = SaveMessage("saved", "success")
  /\ messageTimers' = messageTimers + 1
  /\ isSaving' = FALSE
  /\ UNCHANGED <<settings, pageFrame>>

\* saveSettings: chrome.storage.local.set rejects
SaveSettingsFail ==
  /\ \E request \in inflight :
       /\ request.op = "set"
       /\ inflight' = inflight \ {request}
  /\ saveMessage' = SaveMessage("failed", "error")
  /\ isSaving' = FALSE
  /\ UNCHANGED <<storage, settings, messageTimers, pageFrame>>

\* a setTimeout(() => setSaveMessage(null), 3000) fires
MessageTimeout ==
  /\ messageTimers > 0
  /\ messageTimers' = messageTimers - 1
  /\ saveMessage' = NoMessage
  /\ UNCHANGED <<storage, settings, inflight, isSaving, pageFrame>>

NextOptions ==
  \/ LoadSettingsOk
  \/ LoadSettingsFail
  \/ HandleChangeSettings
  \/ SaveSettings
  \/ SaveSettingsOk
  \/ SaveSettingsFail
  \/ MessageTimeout

SpecOptions == InitOptions /\ [][NextOptions]_vars

\* a number between 1 and 365
InRange(number) == ~number.isNaN /\ number.value \in 1..365

====
